---------------------------- MODULE Spec2Model ----------------------------
(***************************************************************************)
(* Honey-token attribution system: one analysis pass (query -> detect ->   *)
(* store -> alert) of the command-line monitor (src/src/main.py with       *)
(* src/src/analysis/cloudwatch_analyzer.py and src/src/alerts) and of     *)
(* the scheduled function (src/lambda_function.py), and the DynamoDB       *)
(* writes of concurrent analyzers.                                         *)
(*                                                                         *)
(* Time is in whole seconds.  A timestamp string is modelled by the number *)
(* of seconds it denotes when datetime.fromisoformat accepts it, and by a  *)
(* negative number when it does not (None, or text that is no ISO date).   *)
(* A user-agent string is the sequence of its characters.                  *)
(***************************************************************************)
EXTENDS Integers, Sequences, FiniteSets, TLC

(***************************************************************************)
(* Bounds of the model.                                                    *)
(***************************************************************************)
\* passes one behaviour starts
MaxPasses == 2
\* seconds the clock gains while passes run
MaxTicks == 1
\* failures the environment injects (a query, a read, a write) in one behaviour
MaxFaults == 1

(***************************************************************************)
(* Program constants.                                                      *)
(***************************************************************************)
bulk_download_threshold == 10
rapid_access_threshold == 5
rapid_access_window == 60
LambdaBulkFiles == 5
LambdaRapidSpan == 300
LambdaAbnormalCount == 3
LambdaFailureCount == 5
MonitorHours == 1
LambdaHours == 1
IntervalMinutes == 5
BatchListed == 10
MinLineParts == 10
DashboardRows == 10

\* Python's None, where a string field is absent.
None == "<None>"
\* A timestamp value datetime.fromisoformat rejects (None included).
BadTimestamp == 0 - 1

(***************************************************************************)
(* Sequence helpers (Python list and dict-insertion-order semantics).      *)
(***************************************************************************)
Range(s) == {s[i] : i \in DOMAIN s}

Min(a, b) == IF a <= b THEN a ELSE b

\* s[:n]
Take(s, n) == SubSeq(s, 1, Min(n, Len(s)))

RECURSIVE Flatten(_)
Flatten(ss) == IF ss = <<>> THEN <<>> ELSE Head(ss) \o Flatten(Tail(ss))

\* The keys of a defaultdict filled in the order of s: first occurrences.
RECURSIVE Keys(_)
Keys(s) ==
  IF s = <<>> THEN <<>>
  ELSE LET init == Keys(SubSeq(s, 1, Len(s) - 1))
           last == s[Len(s)]
       IN IF last \in Range(init) THEN init ELSE Append(init, last)

\* [f(x) for x in s]
Map(s, f(_)) == [i \in DOMAIN s |-> f(s[i])]

\* str.lower() on the characters the model uses.
LowerChar(c) ==
  CASE c = "C" -> "c" [] c = "U" -> "u" [] c = "R" -> "r" [] c = "L" -> "l"
    [] c = "M" -> "m" [] c = "B" -> "b" [] c = "O" -> "o" [] c = "T" -> "t"
    [] OTHER -> c
Lower(str) == [i \in DOMAIN str |-> LowerChar(str[i])]

\* pattern in str
Contains(str, pattern) ==
  \E i \in 1..(Len(str) - Len(pattern) + 1) :
     SubSeq(str, i, i + Len(pattern) - 1) = pattern

\* datetime.fromisoformat(...) succeeds
Parsable(ts) == ts >= 0
\* datetime.hour
HourOf(ts) == (ts \div 3600) % 24


(***************************************************************************)
(* SecurityEvent (a dataclass): the command-line analyzer and the          *)
(* scheduled function declare the same seven fields.                       *)
(***************************************************************************)
SecurityEvent(event_type, severity, timestamp, ip_address, resource, details, region) ==
  [event_type |-> event_type, severity |-> severity, timestamp |-> timestamp,
   ip_address |-> ip_address, resource |-> resource, details |-> details,
   region |-> region]

\* getattr(event, name) raises AttributeError unless name is a field.
HasAttr(event, name) == name \in DOMAIN event

Region == "us-east-1"

(***************************************************************************)
(* CloudWatchAnalyzer of the command-line variant.                         *)
(***************************************************************************)
\* log_entry.get(name)
RowGet(row, name) == IF name \in DOMAIN row THEN row[name] ELSE None

ParseRow(row) ==
  [timestamp   |-> IF "@timestamp" \in DOMAIN row THEN row["@timestamp"] ELSE BadTimestamp,
   bucket_name |-> RowGet(row, "bucket"),
   object_name |-> RowGet(row, "key"),
   remote_ip   |-> RowGet(row, "remoteip"),
   user_agent  |-> RowGet(row, "useragent"),
   operation   |-> RowGet(row, "operation"),
   http_status |-> RowGet(row, "httpstatus"),
   region      |-> Region]

parse_log_results(results) == [i \in DOMAIN results |-> ParseRow(results[i])]

IsGetObject(log) == log.operation = "REST.GET.OBJECT"
ObjectName(log) == log.object_name

BulkEvent(downloads, ip, now) ==
  SecurityEvent("bulk_download", "high", now, ip, downloads[1].bucket_name,
                [download_count |-> Len(downloads),
                 files |-> Map(Take(downloads, 10), ObjectName),
                 user_agent |-> downloads[1].user_agent],
                Region)

BulkFires(downloads) == Len(downloads) >= bulk_download_threshold

detect_bulk_downloads(logs, now) ==
  LET gets == SelectSeq(logs, IsGetObject)
      RemoteIp(log) == log.remote_ip
      ips == Keys(Map(gets, RemoteIp))
      Downloads(ip) == LET Mine(log) == log.remote_ip = ip IN SelectSeq(gets, Mine)
      One(ip) == IF BulkFires(Downloads(ip))
                 THEN <<BulkEvent(Downloads(ip), ip, now)>> ELSE <<>>
  IN Flatten(Map(ips, One))

\* The last such index instead of the first (a scan that does not stop at
\* its first hit); 0 when none.
LastWindow(times, threshold, window) ==
  LET hits == {i \in 1..(Len(times) - threshold + 1) :
                 times[i + threshold - 1] - times[i] <= window}
  IN IF hits = {} THEN 0 ELSE CHOOSE i \in hits : \A j \in hits : i >= j

\* The first index i of range(len(times) - threshold + 1) whose window of
\* `threshold` consecutive sorted times spans at most `window`; 0 when none.
FirstWindow(times, threshold, window) ==
  LET hits == {i \in 1..(Len(times) - threshold + 1) :
                 times[i + threshold - 1] - times[i] <= window}
  IN IF hits = {} THEN 0 ELSE CHOOSE i \in hits : \A j \in hits : i <= j

RapidEvent(times, i, ip, now) ==
  SecurityEvent("rapid_access", "medium", now, ip, "multiple",
                [access_count |-> rapid_access_threshold,
                 time_window |-> rapid_access_window,
                 first_access |-> times[i],
                 last_access |-> times[i + rapid_access_threshold - 1]],
                Region)

detect_rapid_access(logs, now) ==
  LET HasTime(log) == Parsable(log.timestamp)
      timed == SelectSeq(logs, HasTime)
      RemoteIp(log) == log.remote_ip
      ips == Keys(Map(timed, RemoteIp))
      Times(ip) == LET Mine(log) == log.remote_ip = ip
                       Stamp(log) == log.timestamp
                   IN SortSeq(Map(SelectSeq(timed, Mine), Stamp), <)
      One(ip) == LET i == FirstWindow(Times(ip), rapid_access_threshold, rapid_access_window)
                 IN IF i = 0 THEN <<>> ELSE <<RapidEvent(Times(ip), i, ip, now)>>
  IN Flatten(Map(ips, One))

IsAbnormalHour(ts) == HourOf(ts) \in 0..5

detect_abnormal_hours_access(logs) ==
  LET Hit(log) == Parsable(log.timestamp) /\ IsAbnormalHour(log.timestamp)
      Ev(log) == SecurityEvent("abnormal_hours_access", "medium", log.timestamp,
                               log.remote_ip, log.object_name,
                               [access_time |-> log.timestamp,
                                operation |-> log.operation],
                               Region)
  IN Map(SelectSeq(logs, Hit), Ev)

suspicious_patterns ==
  << <<"c","u","r","l">>, <<"w","g","e","t">>, <<"p","y","t","h","o","n">>,
     <<"b","o","t">>, <<"c","r","a","w","l","e","r">>,
     <<"s","c","a","n","n","e","r">> >>

IsSuspiciousAgent(user_agent, patterns) ==
  \E k \in DOMAIN patterns : Contains(Lower(user_agent), patterns[k])

detect_geolocation_anomaly(logs, now) ==
  LET Hit(log) == IsSuspiciousAgent(log.user_agent, suspicious_patterns)
      Ev(log) == SecurityEvent("suspicious_user_agent", "medium", now,
                               log.remote_ip, log.object_name,
                               [user_agent |-> log.user_agent,
                                reason |-> "Automated tool detected"],
                               Region)
  IN Map(SelectSeq(logs, Hit), Ev)

\* The dict all_events of analyze_logs, in its insertion order, flattened the
\* way both the store loop and main.analyze_logs walk it.
CliDetectAll(logs, now) ==
  detect_bulk_downloads(logs, now) \o detect_rapid_access(logs, now)
    \o detect_abnormal_hours_access(logs) \o detect_geolocation_anomaly(logs, now)

(***************************************************************************)
(* CloudWatchAnalyzer of the scheduled function (lambda_function.py).      *)
(* A line of an S3 access-log file is the list line.split() gives:         *)
(* [n: the number of parts, ip: parts[4], operation: parts[5],             *)
(*  path: parts[7] as its "/"-separated segments, status: parts[8],        *)
(*  agent: parts[10:], each part a sequence of characters].                *)
(***************************************************************************)
\* ' '.join(parts)
RECURSIVE JoinSpace(_)
JoinSpace(parts) ==
  IF parts = <<>> THEN <<>>
  ELSE IF Len(parts) = 1 THEN parts[1]
  ELSE parts[1] \o <<" ">> \o JoinSpace(Tail(parts))

\* line.strip() and not line.startswith('#') and len(parts) > 10
LineCounts(line) == ~line.comment /\ line.n > MinLineParts

ParseLine(line, now) ==
  [timestamp   |-> now,
   remote_ip   |-> line.ip,
   object_name |-> line.path[Len(line.path)],
   user_agent  |-> JoinSpace(line.agent),
   http_status |-> line.status,
   operation   |-> line.operation]

ParseFile(lines, now) ==
  LET Ev(line) == ParseLine(line, now)
  IN Map(SelectSeq(lines, LineCounts), Ev)

LambdaBulkEvent(files, ip, now) ==
  SecurityEvent("bulk_download", "critical", now, ip, <<Cardinality(files), "files">>,
                [files |-> IF Cardinality(files) <= 10 THEN files
                           ELSE CHOOSE S \in SUBSET files : Cardinality(S) = 10,
                 total |-> Cardinality(files)],
                Region)

LambdaDetectBulk(logs, now) ==
  LET RemoteIp(log) == log.remote_ip
      ips == Keys(Map(logs, RemoteIp))
      Files(ip) == {logs[i].object_name : i \in {j \in DOMAIN logs : logs[j].remote_ip = ip}}
      One(ip) == IF Cardinality(Files(ip)) >= LambdaBulkFiles
                 THEN <<LambdaBulkEvent(Files(ip), ip, now)>> ELSE <<>>
  IN Flatten(Map(ips, One))

LambdaRapidEvent(times, i, ip, now) ==
  SecurityEvent("rapid_access", "high", now, ip, "multiple",
                [access_count |-> 10, time_window |-> "5 minutes",
                 first_access |-> times[i], last_access |-> times[i + 9]],
                Region)

\* The scheduled detector if it took its limits from the configuration, as the
\* command-line detector does.
RapidWithConfiguredLimits(logs, now) == detect_rapid_access(logs, now)

LambdaDetectRapid(logs, now) ==
  LET HasTime(log) == Parsable(log.timestamp)
      timed == SelectSeq(logs, HasTime)
      RemoteIp(log) == log.remote_ip
      ips == Keys(Map(timed, RemoteIp))
      Times(ip) == LET Mine(log) == log.remote_ip = ip
                       Stamp(log) == log.timestamp
                   IN SortSeq(Map(SelectSeq(timed, Mine), Stamp), <)
      One(ip) == LET i == FirstWindow(Times(ip), 10, LambdaRapidSpan)
                 IN IF i = 0 THEN <<>> ELSE <<LambdaRapidEvent(Times(ip), i, ip, now)>>
  IN Flatten(Map(ips, One))

LambdaDetectAbnormal(logs, now) ==
  LET Hit(log) == Parsable(log.timestamp) /\ IsAbnormalHour(log.timestamp)
      hits == SelectSeq(logs, Hit)
      RemoteIp(log) == log.remote_ip
      ips == Keys(Map(hits, RemoteIp))
      Access(ip) == LET Mine(log) == log.remote_ip = ip IN SelectSeq(hits, Mine)
      One(ip) ==
        IF Len(Access(ip)) >= LambdaAbnormalCount
        THEN <<SecurityEvent("abnormal_hours_access", "medium", now, ip, "multiple",
                             [access_count |-> Len(Access(ip)),
                              time_range |-> "00:00-06:00 UTC",
                              files_accessed |-> Map(Take(Access(ip), 5), ObjectName)],
                             Region)>>
        ELSE <<>>
  IN Flatten(Map(ips, One))

lambda_suspicious_patterns == Append(suspicious_patterns, <<"s","c","r","i","p","t">>)

LambdaDetectAgents(logs, now) ==
  LET Hit(log) == IsSuspiciousAgent(log.user_agent, lambda_suspicious_patterns)
      hits == SelectSeq(logs, Hit)
      RemoteIp(log) == log.remote_ip
      ips == Keys(Map(hits, RemoteIp))
      Sus(ip) == LET Mine(log) == log.remote_ip = ip IN SelectSeq(hits, Mine)
      One(ip) ==
        <<SecurityEvent("suspicious_user_agent", "medium", now, ip,
                        <<Len(Sus(ip)), "requests">>,
                        [user_agent |-> Sus(ip)[1].user_agent,
                         request_count |-> Len(Sus(ip)),
                         reason |-> "Automated tool detected"],
                        Region)>>
  IN Flatten(Map(ips, One))

IsFailureStatus(status) == status \in {"403", "404", "401"}

LambdaDetectFailed(logs, now) ==
  LET Hit(log) == IsFailureStatus(log.http_status)
      hits == SelectSeq(logs, Hit)
      RemoteIp(log) == log.remote_ip
      HttpStatus(log) == log.http_status
      ips == Keys(Map(hits, RemoteIp))
      Fails(ip) == LET Mine(log) == log.remote_ip = ip IN SelectSeq(hits, Mine)
      One(ip) ==
        IF Len(Fails(ip)) >= LambdaFailureCount
        THEN <<SecurityEvent("failed_access_attempts", "high", now, ip, "multiple",
                             [failure_count |-> Len(Fails(ip)),
                              status_codes |-> Map(Take(Fails(ip), 10), HttpStatus),
                              attempted_resources |-> Map(Take(Fails(ip), 5), ObjectName)],
                             Region)>>
        ELSE <<>>
  IN Flatten(Map(ips, One))

LambdaDetectAll(logs, now) ==
  LambdaDetectBulk(logs, now) \o LambdaDetectRapid(logs, now)
    \o LambdaDetectAbnormal(logs, now) \o LambdaDetectAgents(logs, now)
    \o LambdaDetectFailed(logs, now)

(***************************************************************************)
(* store_event_in_dynamodb.  The table is the list of its items; put_item  *)
(* writes unconditionally and replaces the item that has the same key.     *)
(* The event_id string "<type>_<seconds>_<ip>" is modelled by the triple   *)
(* of its parts.                                                           *)
(***************************************************************************)
CliEventId(event) == <<event.event_type, event.timestamp, event.ip_address>>

LambdaEventId(event, now) == <<event.event_type, now, event.ip_address>>

EventId(v, event, now) ==
  IF v = "cli" THEN CliEventId(event) ELSE LambdaEventId(event, now)

StoreItem(event, event_id) ==
  [event_id |-> event_id, timestamp |-> event.timestamp,
   event_type |-> event.event_type, severity |-> event.severity,
   ip_address |-> event.ip_address, resource |-> event.resource,
   region |-> event.region, details |-> event.details]

HasKey(tbl, event_id) == \E i \in DOMAIN tbl : tbl[i].event_id = event_id

put_item(tbl, item) ==
  IF HasKey(tbl, item.event_id)
  THEN [i \in DOMAIN tbl |-> IF tbl[i].event_id = item.event_id THEN item ELSE tbl[i]]
  ELSE Append(tbl, item)

\* What store_event_in_dynamodb returns: the scheduled function returns
\* True/False, the command-line analyzer returns nothing.
StoreReturn(v, ok) ==
  IF v = "cli" THEN "None" ELSE IF ok THEN "True" ELSE "False"

(***************************************************************************)
(* EmailAlertSystem and SlackAlertSystem.  Rendering reads attributes of   *)
(* the event; reading one the dataclass does not declare raises            *)
(* AttributeError.  `net` is what the transport does when it is reached:   *)
(* "ok" (202 / 200), "rejected" (another status) or "raise".               *)
(***************************************************************************)
NetOutcomes == {"ok", "rejected", "raise"}

\* format_event_html / format_event_slack
RenderEventOk(event) == HasAttr(event, "source_ip") /\ HasAttr(event, "user_agent")

\* The summary loops of send_batch_alert over events[:10]
RenderBatchOk(evs) ==
  \A i \in DOMAIN Take(evs, BatchListed) : HasAttr(evs[i], "source_ip")

\* send_alert with its `if not self.enabled: return False` lines left out
SendAlertOutcomeNoGuard(enabled, event, net) ==
  IF ~RenderEventOk(event) THEN "render_error"
  ELSE IF net = "ok" THEN "sent"
  ELSE IF net = "rejected" THEN "failed" ELSE "error"

\* send_alert: "skipped" (not enabled, returns False), "render_error" (the
\* formatter raised inside the try block: caught, returns False), "error"
\* (the transport raised: caught, returns False), "failed" (status refused,
\* returns False), "sent" (returns True).
SendAlertOutcome(enabled, event, net) ==
  IF ~enabled THEN "skipped"
  ELSE IF ~RenderEventOk(event) THEN "render_error"
  ELSE IF net = "ok" THEN "sent"
  ELSE IF net = "rejected" THEN "failed" ELSE "error"

\* send_batch_alert: as send_alert, but the summary is rendered outside the
\* try block: "raised" is an exception that leaves send_batch_alert.
SendBatchOutcome(enabled, evs, net) ==
  IF ~enabled \/ evs = <<>> THEN "skipped"
  ELSE IF ~RenderBatchOk(evs) THEN "raised"
  ELSE IF net = "ok" THEN "sent"
  ELSE IF net = "rejected" THEN "failed" ELSE "error"

IsImmediate(event) == event.severity \in {"critical", "high"}

\* immediate_alerts of main.analyze_logs, as positions in all_events
ImmediateAlerts(evs) ==
  LET RECURSIVE Pick(_)
      Pick(i) == IF i > Len(evs) THEN <<>>
                 ELSE (IF IsImmediate(evs[i]) THEN <<i>> ELSE <<>>) \o Pick(i + 1)
  IN Pick(1)

\* if len(all_events) > 1
WantsBatch(evs) == Len(evs) > 1

(***************************************************************************)
(* The environment: the access logs the log service holds.  T0 is the wall *)
(* clock when the first pass starts (06:30:00 of some day).                *)
(***************************************************************************)
T0 == 23400

Mozilla == <<"M","o","z","i","l","l","a">>
Curl == <<"c","u","r","l","/","7",".","6","8">>

FileNames == <<"f1.csv", "f2.csv", "f3.csv", "f4.csv", "f5.csv",
               "f6.csv", "f7.csv", "f8.csv", "f9.csv", "f10.csv">>

\* One result row of CloudWatch Logs Insights, as field -> value.
Row(ts, ip, op, key, ua, status) ==
  ("@timestamp" :> ts) @@ ("bucket" :> "honey-tokens") @@ ("key" :> key)
    @@ ("remoteip" :> ip) @@ ("useragent" :> ua) @@ ("operation" :> op)
    @@ ("httpstatus" :> status)

BulkRows ==
  [i \in 1..10 |-> Row(T0 - 1100 + 100 * i, "10.0.0.1", "REST.GET.OBJECT",
                       FileNames[i], Mozilla, "200")]
MediumRows ==
  [i \in 1..5 |-> Row(T0 - 600 + 10 * i, "10.0.0.2", "REST.HEAD.OBJECT",
                      "secrets.txt", Mozilla, "403")]
    \o <<Row(T0 - 500, "10.0.0.3", "REST.HEAD.OBJECT", "id_rsa", Curl, "200")>>
AbnormalRows ==
  <<Row(T0 - 2400, "10.0.0.4", "REST.HEAD.OBJECT", "db.json", Mozilla, "200")>>

Scenarios == {"empty", "bulk", "medium", "mixed", "abnormal"}

CliRows(scn) ==
  CASE scn = "bulk" -> BulkRows
    [] scn = "medium" -> MediumRows
    [] scn = "mixed" -> BulkRows \o MediumRows
    [] scn = "abnormal" -> AbnormalRows
    [] OTHER -> <<>>

\* The rows the query returns for startTime..endTime.
RowsIn(rows, win) ==
  LET In(r) == win[1] <= r["@timestamp"] /\ r["@timestamp"] <= win[2]
  IN SelectSeq(rows, In)

Line(ip, operation, path, status, agent) ==
  [comment |-> FALSE, n |-> 10 + Len(agent), ip |-> ip, operation |-> operation,
   path |-> path, status |-> status, agent |-> agent]
CommentLine ==
  [comment |-> TRUE, n |-> 12, ip |-> "-", operation |-> "-", path |-> <<"-">>,
   status |-> "-", agent |-> <<>>]
ShortLine ==
  [comment |-> FALSE, n |-> 9, ip |-> "10.0.0.4", operation |-> "-",
   path |-> <<"db.json">>, status |-> "200", agent |-> <<>>]

LogFile(key, modified, lines) == [Key |-> key, LastModified |-> modified, lines |-> lines]

BulkLines ==
  [i \in 1..10 |-> Line("10.0.0.1", "arn", <<"tokens", FileNames[i]>>, "200", <<Mozilla>>)]
MediumLines ==
  [i \in 1..5 |-> Line("10.0.0.2", "arn", <<"tokens", "secrets.txt">>, "403", <<Mozilla>>)]
    \o <<Line("10.0.0.3", "arn", <<"id_rsa">>, "200", <<Curl, Mozilla>>)>>

LambdaFiles(scn) ==
  CASE scn = "bulk" -> <<LogFile("log1", T0 - 600, BulkLines)>>
    [] scn = "medium" -> <<LogFile("old", T0 - 4000, BulkLines),
                           LogFile("log2", T0 - 300, MediumLines)>>
    [] scn = "mixed" -> <<LogFile("log1", T0 - 600, BulkLines),
                          LogFile("log2", T0 - 300, MediumLines)>>
    [] scn = "abnormal" -> <<LogFile("log3", T0 - 100, <<CommentLine, ShortLine>>)>>
    [] OTHER -> <<>>

(***************************************************************************)
(* State.                                                                  *)
(***************************************************************************)
VARIABLES
  variant,       \* "cli": main.py monitor; "lambda": lambda_handler on a schedule
  scenario,      \* which logs the log service holds
  emailEnabled,  \* EmailAlertSystem.enabled (SENDGRID_API_KEY is set)
  slackEnabled,  \* SlackAlertSystem.enabled (SLACK_WEBHOOK_URL is set)
  pc,            \* where the current pass stands
  pass,          \* passes started so far
  clock,         \* wall clock, seconds
  ticks,         \* seconds the clock gained while passes ran
  window,        \* <<startTime, endTime>> of the running Logs Insights query
  fileIdx,       \* position in log_files (scheduled function)
  logs,          \* the entries the query returned
  events,        \* all_events, flattened in dict order
  idx,           \* position of the store loop, then of the immediate loop
  chan,          \* the channel the immediate loop calls next
  total_stored,  \* analyze_logs' counter (scheduled function)
  table,         \* the DynamoDB table
  putLog,        \* history: every store_event_in_dynamodb call and its outcome
  sendLog,       \* history: every send_alert / send_batch_alert call and its outcome
  outbox,        \* history: the messages handed to the transports (sg.send, requests.post)
  detected,      \* history: passes that ran the detectors, with the batch size
  ingestErrors,  \* history: passes in which retrieving the logs failed
  faults,        \* failures injected so far
  response,      \* statusCode lambda_handler returned last (0: none yet)
  wevents,       \* concurrent writers: the events each writer still upserts
  wpc,           \* concurrent writers: where each store_event_in_dynamodb stands
  witem,         \* concurrent writers: the item each writer has built
  wret,          \* concurrent writers: what each call returned, in order
  recent,        \* history: what each get_recent_events call returned
  query_status   \* `status` of query_s3_access_logs: what the polling loop saw last

vars == <<variant, scenario, emailEnabled, slackEnabled, pc, pass, clock, ticks,
          window, fileIdx, logs, events, idx, chan, total_stored, table, putLog,
          sendLog, outbox, detected, ingestErrors, faults, response, wevents,
          wpc, witem, wret, recent, query_status>>

writers == <<wevents, wpc, witem, wret>>

config == <<variant, scenario, emailEnabled, slackEnabled>>

Init ==
  /\ variant \in {"cli", "lambda"}
  /\ scenario \in Scenarios
  /\ emailEnabled \in BOOLEAN
  /\ slackEnabled \in BOOLEAN
  /\ (variant = "lambda" => ~emailEnabled /\ ~slackEnabled)
  /\ pc = "idle"
  /\ pass = 0
  /\ clock = T0
  /\ ticks = 0
  /\ window = <<0, 0>>
  /\ fileIdx = 1
  /\ logs = <<>>
  /\ events = <<>>
  /\ idx = 1
  /\ chan = "email"
  /\ total_stored = 0
  /\ table = <<>>
  /\ putLog = <<>>
  /\ sendLog = <<>>
  /\ outbox = <<>>
  /\ detected = <<>>
  /\ ingestErrors = <<>>
  /\ faults = 0
  /\ response = 0
  /\ wevents = <<>>
  /\ wpc = <<>>
  /\ witem = <<>>
  /\ wret = <<>>
  /\ recent = <<>>
  /\ query_status = None

(***************************************************************************)
(* The wall clock advances while a pass runs.  A second that passes is     *)
(* seen by the next read of the clock only, so it is enough to let it pass *)
(* right before the steps that read the clock.                             *)
(***************************************************************************)
ReadsClock == pc \in {"start_query", "list_objects", "read_file", "analyze", "store"}

Tick ==
  /\ ReadsClock
  /\ ticks < MaxTicks
  /\ clock' = clock + 1
  /\ ticks' = ticks + 1
  /\ UNCHANGED <<config, writers, recent, query_status, faults, ingestErrors, pc, pass, window, fileIdx, logs, events, idx, chan,
                 total_stored, table, putLog, sendLog, outbox, detected, response>>

(***************************************************************************)
(* run_continuous_monitoring's loop body / one scheduled invocation starts *)
(***************************************************************************)
StartPass ==
  /\ pc = "idle"
  /\ pass < MaxPasses
  /\ pass' = pass + 1
  /\ pc' = IF variant = "cli" THEN "start_query" ELSE "list_objects"
  /\ logs' = <<>>
  /\ events' = <<>>
  /\ idx' = 1
  /\ chan' = "email"
  /\ fileIdx' = 1
  /\ total_stored' = 0
  /\ UNCHANGED <<config, writers, recent, query_status, faults, ingestErrors, clock, ticks, window, table, putLog, sendLog, outbox,
                 detected, response>>

\* CloudWatchAnalyzer(region=region) of lambda_handler raises: the handler's
\* except branch answers 500.
LambdaSetupFails ==
  /\ pc = "list_objects"
  /\ faults < MaxFaults
  /\ faults' = faults + 1
  /\ variant = "lambda"
  /\ response' = 500
  /\ pc' = "pass_done"
  /\ UNCHANGED <<config, writers, recent, query_status, ingestErrors, pass, clock, ticks, window, fileIdx, logs, events, idx,
                 chan, total_stored, table, putLog, sendLog, outbox, detected>>

(***************************************************************************)
(* query_s3_access_logs, command-line variant.                             *)
(***************************************************************************)
\* start_query answers a queryId
CliStartQuery ==
  /\ pc = "start_query"
  /\ window' = <<clock - MonitorHours * 3600, clock>>
  /\ pc' = "poll"
  /\ UNCHANGED <<config, writers, recent, query_status, faults, ingestErrors, pass, clock, ticks, fileIdx, logs, events, idx, chan,
                 total_stored, table, putLog, sendLog, outbox, detected, response>>

\* get_query_results answers Running or Scheduled: the loop polls again
CliPollPending ==
  /\ pc = "poll"
  /\ \E status \in {"Running", "Scheduled"} : pc' = "poll"
  /\ UNCHANGED <<config, writers, recent, query_status, faults, ingestErrors, pass, clock, ticks, window, fileIdx, logs, events, idx,
                 chan, total_stored, table, putLog, sendLog, outbox, detected,
                 response>>

\* get_query_results answers Complete
CliPollComplete ==
  /\ pc = "poll"
  /\ logs' = parse_log_results(RowsIn(CliRows(scenario), window))
  /\ pc' = "analyze"
  /\ UNCHANGED <<config, writers, recent, query_status, faults, ingestErrors, pass, clock, ticks, window, fileIdx, events, idx, chan,
                 total_stored, table, putLog, sendLog, outbox, detected, response>>

\* start_query or get_query_results raises, or the final status is not
\* Complete: query_s3_access_logs returns []
CliQueryFails ==
  /\ pc \in {"start_query", "poll"}
  /\ \E how \in {"raise", "Failed", "Cancelled", "Timeout"} :
        pc = "start_query" => how = "raise"
  /\ logs' = <<>>
  /\ pc' = "analyze"
  /\ faults < MaxFaults
  /\ faults' = faults + 1
  /\ ingestErrors' = Append(ingestErrors, pass)
  /\ UNCHANGED <<config, writers, recent, query_status, pass, clock, ticks, window, fileIdx, events, idx, chan,
                 total_stored, table, putLog, sendLog, outbox, detected, response>>

(***************************************************************************)
(* query_s3_access_logs, scheduled function.                               *)
(***************************************************************************)
\* list_objects_v2 answers the log files
LambdaListObjects ==
  /\ pc = "list_objects"
  /\ window' = <<clock - LambdaHours * 3600, clock>>
  /\ fileIdx' = 1
  /\ pc' = IF LambdaFiles(scenario) = <<>> THEN "analyze" ELSE "read_file"
  /\ UNCHANGED <<config, writers, recent, query_status, faults, ingestErrors, pass, clock, ticks, logs, events, idx, chan,
                 total_stored, table, putLog, sendLog, outbox, detected, response>>

\* list_objects_v2 raises: the outer except keeps logs = []
LambdaListFails ==
  /\ pc = "list_objects"
  /\ logs' = <<>>
  /\ pc' = "analyze"
  /\ faults < MaxFaults
  /\ faults' = faults + 1
  /\ ingestErrors' = Append(ingestErrors, pass)
  /\ UNCHANGED <<config, writers, recent, query_status, pass, clock, ticks, window, fileIdx, events, idx, chan,
                 total_stored, table, putLog, sendLog, outbox, detected, response>>

NextFilePc(i) == IF i >= Len(LambdaFiles(scenario)) THEN "analyze" ELSE "read_file"

\* one iteration of `for obj in log_files` whose get_object succeeds, or
\* whose file is older than the cutoff
LambdaReadFile ==
  /\ pc = "read_file"
  /\ LET obj == LambdaFiles(scenario)[fileIdx]
     IN logs' = IF obj.LastModified > window[1]
                THEN logs \o ParseFile(obj.lines, clock) ELSE logs
  /\ fileIdx' = fileIdx + 1
  /\ pc' = NextFilePc(fileIdx)
  /\ UNCHANGED <<config, writers, recent, query_status, faults, ingestErrors, pass, clock, ticks, window, events, idx, chan,
                 total_stored, table, putLog, sendLog, outbox, detected, response>>

\* one iteration whose get_object / read / decode raises: the inner except
\* continues with the next file, the entries read so far are kept
LambdaReadFails ==
  /\ pc = "read_file"
  /\ LambdaFiles(scenario)[fileIdx].LastModified > window[1]
  /\ fileIdx' = fileIdx + 1
  /\ pc' = NextFilePc(fileIdx)
  /\ faults < MaxFaults
  /\ faults' = faults + 1
  /\ ingestErrors' = Append(ingestErrors, pass)
  /\ UNCHANGED <<config, writers, recent, query_status, pass, clock, ticks, window, logs, events, idx, chan,
                 total_stored, table, putLog, sendLog, outbox, detected, response>>

(***************************************************************************)
(* analyze_logs of the analyzer: detection, then the store loop.           *)
(***************************************************************************)
DetectAll(v, batch, now) ==
  IF v = "cli" THEN CliDetectAll(batch, now) ELSE LambdaDetectAll(batch, now)

\* analyze_logs raising on an empty batch instead of returning {}
AnalyzeNoLogsRaises ==
  /\ pc = "analyze"
  /\ logs = <<>>
  /\ events' = <<>>
  /\ pc' = IF variant = "cli" THEN "crashed" ELSE "pass_done"
  /\ response' = IF variant = "cli" THEN response ELSE 500
  /\ UNCHANGED <<config, writers, recent, query_status, faults, ingestErrors, pass, clock, ticks, window, fileIdx, logs, idx, chan,
                 total_stored, table, putLog, sendLog, outbox, detected>>

\* `if not logs: return {}`
AnalyzeNoLogs ==
  /\ pc = "analyze"
  /\ logs = <<>>
  /\ events' = <<>>
  /\ pc' = "returned"
  /\ UNCHANGED <<config, writers, recent, query_status, faults, ingestErrors, pass, clock, ticks, window, fileIdx, logs, idx, chan,
                 total_stored, table, putLog, sendLog, outbox, detected, response>>

\* the dict of the detectors' results
AnalyzeDetect ==
  /\ pc = "analyze"
  /\ logs # <<>>
  /\ events' = DetectAll(variant, logs, clock)
  /\ detected' = Append(detected, [pass |-> pass, entries |-> Len(logs)])
  /\ idx' = 1
  /\ pc' = IF events' = <<>> THEN "returned" ELSE "store"
  /\ UNCHANGED <<config, writers, recent, query_status, faults, ingestErrors, pass, clock, ticks, window, fileIdx, logs, chan,
                 total_stored, table, putLog, sendLog, outbox, response>>

PutRecord(i, event_id, ok) ==
  [pass |-> pass, ev |-> i, event_id |-> event_id, ok |-> ok,
   ret |-> StoreReturn(variant, ok),
   event_type |-> events[i].event_type, ip_address |-> events[i].ip_address]

\* What the store loop does once store_event_in_dynamodb has returned.
AfterStore(ok) ==
  /\ total_stored' = IF variant = "lambda" /\ ok THEN total_stored + 1 ELSE total_stored
  /\ idx' = IF idx = Len(events) THEN 1 ELSE idx + 1
  /\ pc' = IF idx = Len(events) THEN "returned" ELSE "store"

\* store_event_in_dynamodb(events[idx]) whose put_item succeeds
StoreEvent ==
  /\ pc = "store"
  /\ LET event_id == EventId(variant, events[idx], clock)
     IN /\ table' = put_item(table, StoreItem(events[idx], event_id))
        /\ putLog' = Append(putLog, PutRecord(idx, event_id, TRUE))
  /\ AfterStore(TRUE)
  /\ UNCHANGED <<config, writers, recent, query_status, faults, ingestErrors, pass, clock, ticks, window, fileIdx, logs, events, chan,
                 sendLog, outbox, detected, response>>

\* store_event_in_dynamodb(events[idx]) whose put_item raises: the except
\* branch prints and the loop goes on
StoreFails ==
  /\ pc = "store"
  /\ faults < MaxFaults
  /\ faults' = faults + 1
  /\ putLog' = Append(putLog, PutRecord(idx, EventId(variant, events[idx], clock), FALSE))
  /\ AfterStore(FALSE)
  /\ UNCHANGED <<config, writers, recent, query_status, ingestErrors, pass, clock, ticks, window, fileIdx, logs, events, chan,
                 table, sendLog, outbox, detected, response>>

\* lambda_handler returns statusCode 200 once analyze_logs has returned
LambdaReturn ==
  /\ pc = "returned"
  /\ variant = "lambda"
  /\ response' = 200
  /\ pc' = "pass_done"
  /\ UNCHANGED <<config, writers, recent, query_status, faults, ingestErrors, pass, clock, ticks, window, fileIdx, logs, events, idx,
                 chan, total_stored, table, putLog, sendLog, outbox, detected>>

(***************************************************************************)
(* main.analyze_logs after the analyzer has returned (send_alerts = True). *)
(***************************************************************************)
AfterImmediatePc == IF WantsBatch(events) THEN "batch_email" ELSE "pass_done"

\* What main.analyze_logs hands back to its caller: it has a bare `return`
\* and otherwise falls off its end, and the values send_alert and
\* send_batch_alert return are dropped where they are called.
analyze_logs_return == None

\* `if not all_events: return`, else the alert systems are built and the
\* immediate loop starts
MainDispatch ==
  /\ pc = "returned"
  /\ variant = "cli"
  /\ idx' = 1
  /\ chan' = "email"
  /\ pc' = IF events = <<>> THEN "pass_done"
           ELSE IF ImmediateAlerts(events) = <<>> THEN AfterImmediatePc
           ELSE "immediate"
  /\ UNCHANGED <<config, writers, recent, query_status, faults, ingestErrors, pass, clock, ticks, window, fileIdx, logs, events,
                 total_stored, table, putLog, sendLog, outbox, detected, response>>

ChannelEnabled(c) == IF c = "email" THEN emailEnabled ELSE slackEnabled

SendRecord(kind, i, c, outcome) ==
  [pass |-> pass, kind |-> kind, ev |-> i, channel |-> c, outcome |-> outcome]

\* The outcomes in which sg.send / requests.post was called.
Transmitted == {"sent", "failed", "error"}

Delivered(kind, i, c, outcome) ==
  IF outcome \in Transmitted THEN <<[pass |-> pass, kind |-> kind, ev |-> i, channel |-> c]>>
  ELSE <<>>

\* email_system.send_alert(event), then slack_system.send_alert(event), for
\* the idx-th immediate alert
SendAlert ==
  /\ pc = "immediate"
  /\ \E net \in NetOutcomes :
       LET i == ImmediateAlerts(events)[idx]
           outcome == SendAlertOutcome(ChannelEnabled(chan), events[i], net)
       IN /\ sendLog' = Append(sendLog, SendRecord("alert", i, chan, outcome))
          /\ outbox' = outbox \o Delivered("alert", i, chan, outcome)
  /\ IF chan = "email"
     THEN /\ chan' = "slack"
          /\ UNCHANGED <<idx, pc>>
     ELSE /\ chan' = "email"
          /\ idx' = IF idx = Len(ImmediateAlerts(events)) THEN 1 ELSE idx + 1
          /\ pc' = IF idx = Len(ImmediateAlerts(events)) THEN AfterImmediatePc
                   ELSE "immediate"
  /\ UNCHANGED <<config, writers, recent, query_status, faults, ingestErrors, pass, clock, ticks, window, fileIdx, logs, events,
                 total_stored, table, putLog, detected, response>>

\* email_system.send_batch_alert(all_events), then
\* slack_system.send_batch_alert(all_events); an exception that leaves
\* either ends analyze_logs and, uncaught by the monitor loop, the process
SendBatch(c, nextPc) ==
  \E net \in NetOutcomes :
    LET outcome == SendBatchOutcome(ChannelEnabled(c), events, net)
    IN /\ sendLog' = Append(sendLog, SendRecord("batch", 0, c, outcome))
       /\ outbox' = outbox \o Delivered("batch", 0, c, outcome)
       /\ pc' = IF outcome = "raised" THEN "crashed" ELSE nextPc

SendBatchEmail ==
  /\ pc = "batch_email"
  /\ SendBatch("email", "batch_slack")
  /\ UNCHANGED <<config, writers, recent, query_status, faults, ingestErrors, pass, clock, ticks, window, fileIdx, logs, events, idx,
                 chan, total_stored, table, putLog, detected, response>>

SendBatchSlack ==
  /\ pc = "batch_slack"
  /\ SendBatch("slack", "pass_done")
  /\ UNCHANGED <<config, writers, recent, query_status, faults, ingestErrors, pass, clock, ticks, window, fileIdx, logs, events, idx,
                 chan, total_stored, table, putLog, detected, response>>

(***************************************************************************)
(* Between passes: time.sleep(interval_minutes * 60), or the schedule's    *)
(* rate(5 minutes); Ctrl+C, or the platform's timeout, ends a pass where   *)
(* it stands.                                                              *)
(***************************************************************************)
Sleep ==
  /\ pc = "pass_done"
  /\ clock' = clock + IntervalMinutes * 60
  /\ pc' = "idle"
  /\ UNCHANGED <<config, writers, recent, query_status, faults, ingestErrors, pass, ticks, window, fileIdx, logs, events, idx, chan,
                 total_stored, table, putLog, sendLog, outbox, detected, response>>

Interrupt ==
  /\ pc \notin {"crashed", "stopped"}
  /\ pc' = "stopped"
  /\ UNCHANGED <<config, writers, recent, query_status, faults, ingestErrors, pass, clock, ticks, window, fileIdx, logs, events, idx,
                 chan, total_stored, table, putLog, sendLog, outbox, detected,
                 response>>

Next ==
  \/ Tick
  \/ StartPass
  \/ LambdaSetupFails
  \/ CliStartQuery
  \/ CliPollPending
  \/ CliPollComplete
  \/ CliQueryFails
  \/ LambdaListObjects
  \/ LambdaListFails
  \/ LambdaReadFile
  \/ LambdaReadFails
  \/ AnalyzeNoLogs
  \/ AnalyzeDetect
  \/ StoreEvent
  \/ StoreFails
  \/ LambdaReturn
  \/ MainDispatch
  \/ SendAlert
  \/ SendBatchEmail
  \/ SendBatchSlack
  \/ Sleep
  \/ Interrupt

Spec == Init /\ [][Next]_vars

\* The steps a running pass takes by itself, the services it calls answering
\* in the end (the detection step is left to SpecMonitor's last conjunct).
Progress ==
  \/ StartPass
  \/ CliStartQuery
  \/ CliPollComplete
  \/ LambdaListObjects
  \/ LambdaReadFile
  \/ AnalyzeNoLogs
  \/ StoreEvent
  \/ LambdaReturn
  \/ MainDispatch
  \/ SendAlert
  \/ SendBatchEmail
  \/ SendBatchSlack
  \/ Sleep

\* The monitor and the schedule keep going: a pass that can take a step
\* takes one.  The detectors return, too: that is WF_vars(AnalyzeDetect),
\* written as the recurrence it amounts to (the step is enabled exactly
\* where pc = "analyze" and the batch is not empty).
SpecMonitor ==
  Init /\ [][Next]_vars /\ WF_vars(Progress) /\ []<>(pc # "analyze")

(***************************************************************************)
(* Concurrent analyzers writing to one table: each writer calls            *)
(* store_event_in_dynamodb for the events it holds, one after the other.   *)
(* A call builds the item (the scheduled function reads the clock for the  *)
(* key) and then calls put_item, which DynamoDB applies atomically.        *)
(***************************************************************************)
MaxUpserts == 2
Writers == {1, 2}

\* The events the detectors give for the "mixed" logs at T0.
SampleEvents(v) ==
  IF v = "cli" THEN CliDetectAll(parse_log_results(BulkRows \o MediumRows), T0)
  ELSE LambdaDetectAll(ParseFile(BulkLines \o MediumLines, T0), T0)

UpsertLists(v) ==
  LET pool == {SampleEvents(v)[1], SampleEvents(v)[2]}
  IN UNION {[1..n -> pool] : n \in 0..MaxUpserts}

InitStore ==
  /\ variant \in {"cli", "lambda"}
  /\ scenario = "empty"
  /\ emailEnabled = FALSE
  /\ slackEnabled = FALSE
  /\ pc = "idle"
  /\ pass = 0
  /\ clock = T0
  /\ ticks = 0
  /\ window = <<0, 0>>
  /\ fileIdx = 1
  /\ logs = <<>>
  /\ events = <<>>
  /\ idx = 1
  /\ chan = "email"
  /\ total_stored = 0
  /\ table = <<>>
  /\ putLog = <<>>
  /\ sendLog = <<>>
  /\ outbox = <<>>
  /\ detected = <<>>
  /\ ingestErrors = <<>>
  /\ faults = 0
  /\ response = 0
  /\ wevents \in [Writers -> UpsertLists(variant)]
  /\ wpc = [w \in Writers |-> "ready"]
  /\ witem = [w \in Writers |-> <<>>]
  /\ wret = [w \in Writers |-> <<>>]
  /\ recent = <<>>
  /\ query_status = None

passVars == <<scenario, emailEnabled, slackEnabled, pc, pass, window, fileIdx,
              logs, events, idx, chan, total_stored, putLog, sendLog, outbox,
              detected, ingestErrors, faults, response, recent, query_status>>

StoreTick ==
  /\ ticks < MaxTicks
  /\ \E w \in Writers : wevents[w] # <<>>
  /\ clock' = clock + 1
  /\ ticks' = ticks + 1
  /\ UNCHANGED <<passVars, variant, table, writers>>

\* The item dict of store_event_in_dynamodb
WriterBuild(w) ==
  /\ wpc[w] = "ready"
  /\ wevents[w] # <<>>
  /\ witem' = [witem EXCEPT ![w] =
                 <<StoreItem(Head(wevents[w]), EventId(variant, Head(wevents[w]), clock))>>]
  /\ wpc' = [wpc EXCEPT ![w] = "put"]
  /\ UNCHANGED <<passVars, variant, clock, ticks, table, wevents, wret>>

WriterReturn(w, ok) ==
  /\ wret' = [wret EXCEPT ![w] =
                Append(@, [event |-> Head(wevents[w]), event_id |-> witem[w][1].event_id,
                           ret |-> StoreReturn(variant, ok)])]
  /\ wevents' = [wevents EXCEPT ![w] = Tail(@)]
  /\ witem' = [witem EXCEPT ![w] = <<>>]
  /\ wpc' = [wpc EXCEPT ![w] = "ready"]

\* table.put_item(Item=item) succeeds
WriterPut(w) ==
  /\ wpc[w] = "put"
  /\ table' = put_item(table, witem[w][1])
  /\ WriterReturn(w, TRUE)
  /\ UNCHANGED <<passVars, variant, clock, ticks>>

\* table.put_item(Item=item) raises
WriterPutFails(w) ==
  /\ wpc[w] = "put"
  /\ WriterReturn(w, FALSE)
  /\ UNCHANGED <<passVars, variant, clock, ticks, table>>

NextStore ==
  \/ StoreTick
  \/ \E w \in Writers : WriterBuild(w)
  \/ \E w \in Writers : WriterPut(w)
  \/ \E w \in Writers : WriterPutFails(w)

SpecStore == InitStore /\ [][NextStore]_vars

(***************************************************************************)
(* The detectors as functions of the batch.  A batch is described by its   *)
(* accesses: n GETs of one source IP answered 200, `gap` seconds apart,     *)
(* with one user agent, followed by at most one more access (a HEAD, a GET *)
(* answered 403, an access whose log record has no user agent, one whose   *)
(* record has no readable timestamp, one made with curl whose record has   *)
(* no remote address).  The log service                                    *)
(* gives the command-line analyzer one result row per access; the bucket   *)
(* gives the scheduled function one log line per access.  analyze_logs is  *)
(* run on the same batch at most MaxPasses times, at different times.      *)
(***************************************************************************)
DetectIp == "10.0.0.1"
DetectStart == T0 - 1500
DetectScenarios ==
  [n : {4, 5, 9, 10, 12}, gap : {2, 15, 100}, ua : {Mozilla, Curl},
   extra : {"none", "head", "denied", "no_agent", "bad_time", "no_ip"}]

\* What an S3 access log record holds in place of a remote address it lacks.
MissingIp == "-"

KeyName(i) == FileNames[((i - 1) % Len(FileNames)) + 1]

Access(time, method, key, status, ua) ==
  [time |-> time, ip |-> DetectIp, method |-> method, key |-> key,
   status |-> status, ua |-> ua]

Accesses(sc) ==
  LET next == DetectStart + sc.gap * sc.n
  IN [i \in 1..sc.n |->
        Access(DetectStart + sc.gap * (i - 1), "GET", KeyName(i), "200", sc.ua)]
     \o (CASE sc.extra = "head" -> <<Access(next, "HEAD", "extra.txt", "200", sc.ua)>>
           [] sc.extra = "denied" -> <<Access(next, "GET", "extra.txt", "403", sc.ua)>>
           [] sc.extra = "no_agent" -> <<Access(next, "HEAD", "extra.txt", "200", None)>>
           [] sc.extra = "bad_time" ->
                <<Access(BadTimestamp, "HEAD", "extra.txt", "200", sc.ua)>>
           [] sc.extra = "no_ip" ->
                <<[Access(next, "HEAD", "extra.txt", "200", Curl) EXCEPT !.ip = MissingIp]>>
           [] OTHER -> <<>>)

\* The result row of one access: a field the log record lacks is absent.
AccessRow(a) ==
  LET op == IF a.method = "GET" THEN "REST.GET.OBJECT" ELSE "REST.HEAD.OBJECT"
      full == Row(a.time, a.ip, op, a.key, a.ua, a.status)
      kept == {f \in DOMAIN full : ~(f = "useragent" /\ a.ua = None)}
  IN [f \in kept |-> full[f]]

\* The log line of one access; the function does not read the line's time.
AccessLine(a) ==
  Line(a.ip, a.method, <<"tokens", a.key>>, a.status,
       IF a.ua = None THEN <<>> ELSE <<a.ua>>)

DetectLogs(v, sc, now) ==
  IF v = "cli" THEN parse_log_results(Map(Accesses(sc), AccessRow))
  ELSE ParseFile(Map(Accesses(sc), AccessLine), now)

\* user_agent = log.get('user_agent', '').lower() of detect_geolocation_anomaly:
\* the key is always there, and None has no lower()
GeolocationRaises(batch) == \E i \in DOMAIN batch : batch[i].user_agent = None

\* A detector of analyze_logs raises on this batch.
DetectRaises(v, batch) == v = "cli" /\ GeolocationRaises(batch)

InitDetect ==
  /\ variant \in {"cli", "lambda"}
  /\ scenario \in DetectScenarios
  /\ emailEnabled = FALSE
  /\ slackEnabled = FALSE
  /\ pc = "analyze"
  /\ pass = 1
  /\ clock = T0
  /\ ticks = 0
  /\ window = <<T0 - 3600 * MonitorHours, T0>>
  /\ fileIdx = 1
  /\ logs = DetectLogs(variant, scenario, T0)
  /\ events = <<>>
  /\ idx = 1
  /\ chan = "email"
  /\ total_stored = 0
  /\ table = <<>>
  /\ putLog = <<>>
  /\ sendLog = <<>>
  /\ outbox = <<>>
  /\ detected = <<>>
  /\ ingestErrors = <<>>
  /\ faults = 0
  /\ response = 0
  /\ wevents = <<>>
  /\ wpc = <<>>
  /\ witem = <<>>
  /\ wret = <<>>
  /\ recent = <<>>
  /\ query_status = None

detectFixed == <<config, writers, recent, query_status, faults, ingestErrors, window, fileIdx, logs, idx, chan,
                 total_stored, table, putLog, sendLog, outbox, response>>

\* Time passes between two runs.
DetectTick ==
  /\ pc = "analyze"
  /\ ticks < MaxTicks
  /\ clock' = clock + 1
  /\ ticks' = ticks + 1
  /\ UNCHANGED <<detectFixed, pc, pass, events, detected>>

\* analyze_logs builds the dict of the detectors' results
RunAll ==
  /\ pc = "analyze"
  /\ pass <= MaxPasses
  /\ ~DetectRaises(variant, logs)
  /\ events' = DetectAll(variant, logs, clock)
  /\ detected' = Append(detected, [pass |-> pass, entries |-> Len(logs), now |-> clock,
                                   events |-> events'])
  /\ pass' = pass + 1
  /\ UNCHANGED <<detectFixed, pc, clock, ticks>>

\* a detector raises: nothing in analyze_logs catches it
RunAllRaises ==
  /\ pc = "analyze"
  /\ pass <= MaxPasses
  /\ DetectRaises(variant, logs)
  /\ pc' = IF variant = "cli" THEN "crashed" ELSE "pass_done"
  /\ response' = IF variant = "cli" THEN response ELSE 500
  /\ UNCHANGED <<config, writers, recent, query_status, faults, ingestErrors, window, fileIdx, logs, idx, chan,
                 total_stored, table, putLog, sendLog, outbox, pass, clock, ticks,
                 events, detected>>

NextDetect == DetectTick \/ RunAll \/ RunAllRaises

SpecDetect == InitDetect /\ [][NextDetect]_vars

(***************************************************************************)
(* get_recent_events, which the dashboard calls.  The table holds events   *)
(* stored at different times; table.scan answers the items that pass the   *)
(* filter in an order the service chooses (Scan promises none).  The       *)
(* timestamps are ISO strings of one format, which compare as the times    *)
(* do.                                                                     *)
(***************************************************************************)
MaxQueries == 1
DashboardHours == {1, 24}
StoreTimes == {T0 - 90000, T0 - 7200, T0 - 600, T0 - 60}

\* The item store_event_in_dynamodb wrote for the bulk download detected at t.
StoredAt(t) ==
  LET event == CliDetectAll(parse_log_results(BulkRows), t)[1]
  IN StoreItem(event, CliEventId(event))

RECURSIVE PutAll(_)
PutAll(times) ==
  IF times = <<>> THEN <<>>
  ELSE put_item(PutAll(SubSeq(times, 1, Len(times) - 1)), StoredAt(times[Len(times)]))

QueryTables ==
  {PutAll(times) : times \in {q \in UNION {[1..n -> StoreTimes] : n \in 0..3} :
                                 \A i, j \in DOMAIN q : i # j => q[i] # q[j]}}

\* FilterExpression '#ts >= :cutoff'
ScanFilter(tbl, cutoff) == {i \in DOMAIN tbl : tbl[i].timestamp >= cutoff}

\* The orders in which response['Items'] can list the filtered items.
ScanOrders(tbl, cutoff) ==
  LET hits == ScanFilter(tbl, cutoff)
  IN {[k \in 1..Cardinality(hits) |-> tbl[f[k]]] :
        f \in {g \in [1..Cardinality(hits) -> hits] :
                 \A a, b \in 1..Cardinality(hits) : a # b => g[a] # g[b]}}

\* all_events[:10] of update_dashboard, the rows of the recent-events table
RecentRows(all_events) == Take(all_events, DashboardRows)

InitQuery ==
  /\ variant = "cli"
  /\ scenario = "empty"
  /\ emailEnabled = FALSE
  /\ slackEnabled = FALSE
  /\ pc = "idle"
  /\ pass = 0
  /\ clock = T0
  /\ ticks = 0
  /\ window = <<0, 0>>
  /\ fileIdx = 1
  /\ logs = <<>>
  /\ events = <<>>
  /\ idx = 1
  /\ chan = "email"
  /\ total_stored = 0
  /\ table \in QueryTables
  /\ putLog = <<>>
  /\ sendLog = <<>>
  /\ outbox = <<>>
  /\ detected = <<>>
  /\ ingestErrors = <<>>
  /\ faults = 0
  /\ response = 0
  /\ wevents = <<>>
  /\ wpc = <<>>
  /\ witem = <<>>
  /\ wret = <<>>
  /\ recent = <<>>
  /\ query_status = None

queryFixed == <<config, writers, pc, pass, clock, ticks, window, fileIdx, logs, events, idx,
                chan, total_stored, table, putLog, sendLog, outbox, detected,
                ingestErrors, faults, response, query_status>>

QueryRecord(hours, ok, items) ==
  [hours |-> hours, cutoff |-> clock - hours * 3600, ok |-> ok, items |-> items]

\* get_recent_events(hours) whose scan succeeds: the items in the order of
\* response['Items']
GetRecentEvents ==
  /\ Len(recent) < MaxQueries
  /\ \E hours \in DashboardHours :
        \E items \in ScanOrders(table, clock - hours * 3600) :
           recent' = Append(recent, QueryRecord(hours, TRUE, items))
  /\ UNCHANGED queryFixed

\* get_recent_events(hours) whose scan raises: the except branch returns []
GetRecentEventsFails ==
  /\ Len(recent) < MaxQueries
  /\ \E hours \in DashboardHours :
        recent' = Append(recent, QueryRecord(hours, FALSE, <<>>))
  /\ UNCHANGED queryFixed

NextQuery == GetRecentEvents \/ GetRecentEventsFails

SpecQuery == InitQuery /\ [][NextQuery]_vars

(***************************************************************************)
(* PatternDetector (pattern_detector.py) and LogAnalyzer.detect_rapid_access*)
(* (log_analyzer.py), as functions of a batch; no pass calls them.  A batch *)
(* is what get_recent_access_logs returns for the accesses of one address:  *)
(* n accesses `gap` seconds apart (evenly; every second one half a gap      *)
(* late; or the last one 30% of a gap late), all with one status, each to   *)
(* an object of its own, optionally followed by one more access a long time *)
(* after.  The objects served have `bytes` bytes each; the rows of the      *)
(* query have no column for it.  An object's name is its number.            *)
(***************************************************************************)
estimated_size == 1024 * 1024
threshold_mb == 100
StuffingFailures == 5
StuffingSpan == 60
ScanResources == 20
ScanSpan == 120
BeaconEntries == 5

PatternStart == 100
StragglerDelay == 1000

\* <<RAPID_ACCESS_THRESHOLD, RAPID_ACCESS_WINDOW>> of the environment
RapidConfigs == {<<5, 60>>, <<1, 0>>, <<5, 0>>}

PatternScenarios ==
  [n : {4, 5, 6, 20}, gap : {0, 5, 12, 100, 300},
   spacing : {"even", "jitter", "drift"}, status : {200, 403},
   straggler : BOOLEAN, bytes : {1024, 60 * 1024 * 1024}, rapid : RapidConfigs]
  \cup
  [n : {2, 100}, gap : {0, 5}, spacing : {"even"}, status : {200, 403},
   straggler : {FALSE}, bytes : {1024, 60 * 1024 * 1024}, rapid : {<<5, 60>>}]

AccessTime(sc, i) ==
  PatternStart + sc.gap * (i - 1)
    + (IF sc.spacing = "jitter" /\ i % 2 = 0 THEN sc.gap \div 2 ELSE 0)
    + (IF sc.spacing = "drift" /\ i = sc.n THEN (3 * sc.gap) \div 10 ELSE 0)

PatternAccess(sc, time, object) ==
  [time |-> time, ip |-> DetectIp, object |-> object, method |-> "GET",
   status |-> sc.status, ua |-> Mozilla, bytes |-> sc.bytes]

PatternAccesses(sc) ==
  [i \in 1..sc.n |-> PatternAccess(sc, AccessTime(sc, i), i)]
    \o (IF sc.straggler
        THEN <<PatternAccess(sc, PatternStart + sc.gap * sc.n + StragglerDelay, sc.n + 1)>>
        ELSE <<>>)

Reverse(s) == [i \in DOMAIN s |-> s[Len(s) + 1 - i]]

\* One row of get_recent_access_logs (ORDER BY timestamp DESC), as the dict
\* the loop builds; the model keeps the keys the detectors read.
StorageLog(a) ==
  [timestamp |-> a.time, object |-> a.object, method |-> a.method,
   status |-> a.status, user_agent |-> a.ua, ip |-> a.ip]

get_recent_access_logs(accesses) == Reverse(Map(accesses, StorageLog))

\* The same accesses as the command-line analyzer gets them.
StatusText(status) == IF status = 200 THEN "200" ELSE "403"
InsightsRow(a) ==
  Row(a.time, a.ip, "REST.GET.OBJECT", a.object, a.ua, StatusText(a.status))
InsightsLogs(accesses) == parse_log_results(Reverse(Map(accesses, InsightsRow)))

\* list.sort(key=timestamp): stable.
RECURSIVE SortByTime(_)
SortByTime(s) ==
  IF s = <<>> THEN <<>>
  ELSE LET init == SortByTime(SubSeq(s, 1, Len(s) - 1))
           last == s[Len(s)]
           k == Cardinality({i \in DOMAIN init : init[i].timestamp <= last.timestamp})
       IN SubSeq(init, 1, k) \o <<last>> \o SubSeq(init, k + 1, Len(init))

\* What a call of a detector does: it returns its events, or it raises.
Returned(evs) == [raised |-> None, events |-> evs]
Raised(error) == [raised |-> error, events |-> <<>>]

\* The dataclass pattern_detector.py imports (cloudwatch_analyzer.SecurityEvent)
\* has these fields, all required; the generated __init__ takes no others.
SecurityEventFields ==
  {"event_type", "severity", "timestamp", "ip_address", "resource", "details", "region"}
\* The keywords every SecurityEvent(...) call of pattern_detector.py passes.
PatternKeywords ==
  {"timestamp", "event_type", "severity", "source_ip", "user_agent", "resource", "details"}
ConstructorAccepts(keywords) == keywords = SecurityEventFields

PatternEvent(timestamp, event_type, severity, source_ip, user_agent, resource, details) ==
  [timestamp |-> timestamp, event_type |-> event_type, severity |-> severity,
   source_ip |-> source_ip, user_agent |-> user_agent, resource |-> resource,
   details |-> details]

\* A detector's loop over its groups: `Reaches(ip)` says the group gets to
\* the SecurityEvent(...) call, `Event(ip)` is the event the call is to build.
\* The first call raises TypeError unless the dataclass takes the keywords.
EmitFor(ips, Reaches(_), Event(_)) ==
  LET hits == SelectSeq(ips, Reaches)
  IN IF hits = <<>> THEN Returned(<<>>)
     ELSE IF ConstructorAccepts(PatternKeywords) THEN Returned(Map(hits, Event))
     ELSE Raised("TypeError")

RECURSIVE SumSeq(_)
SumSeq(s) == IF s = <<>> THEN 0 ELSE Head(s) + SumSeq(Tail(s))

Abs(x) == IF x < 0 THEN 0 - x ELSE x

\* The groups of a defaultdict keyed by log['ip'], in insertion order.
IpsOf(batch) == LET Ip(log) == log.ip IN Keys(Map(batch, Ip))
GroupOf(batch, ip) == LET Mine(log) == log.ip = ip IN SelectSeq(batch, Mine)

\* x / max(span, 1), kept as the fraction
Rate(x, span) == [num |-> x, den |-> IF span > 1 THEN span ELSE 1]

detect_credential_stuffing(batch) ==
  LET Failed(log) == log.status \in {401, 403}
      failed == SelectSeq(batch, Failed)
      Failures(ip) == SortByTime(GroupOf(failed, ip))
      First(ip) == Failures(ip)[1].timestamp
      Last(ip) == Failures(ip)[Len(Failures(ip))].timestamp
      Reaches(ip) == /\ Len(Failures(ip)) >= StuffingFailures
                     /\ Last(ip) - First(ip) <= StuffingSpan
      Event(ip) ==
        PatternEvent(Last(ip), "credential_stuffing", "high", ip,
                     Failures(ip)[1].user_agent, Failures(ip)[1].object,
                     [failed_attempts |-> Len(Failures(ip)),
                      time_span |-> Last(ip) - First(ip),
                      attack_rate |-> Rate(Len(Failures(ip)), Last(ip) - First(ip))])
  IN EmitFor(IpsOf(failed), Reaches, Event)

detect_data_exfiltration(batch) ==
  LET Download(log) == log.method = "GET" /\ log.status = 200
      downloads == SelectSeq(batch, Download)
      Files(ip) == Len(GroupOf(downloads, ip))
      Bytes(ip) == Files(ip) * estimated_size
      Stamps(ip) == {GroupOf(downloads, ip)[i].timestamp : i \in 1..Files(ip)}
      First(ip) == CHOOSE t \in Stamps(ip) : \A u \in Stamps(ip) : t <= u
      Last(ip) == CHOOSE t \in Stamps(ip) : \A u \in Stamps(ip) : t >= u
      \* size_mb >= threshold_mb, with size_mb = bytes / (1024 * 1024)
      Reaches(ip) == Bytes(ip) >= threshold_mb * (1024 * 1024)
      Event(ip) ==
        PatternEvent(Last(ip), "data_exfiltration", "critical", ip, <<>>,
                     <<Files(ip), "files">>,
                     [total_size_bytes |-> Bytes(ip), file_count |-> Files(ip),
                      duration_seconds |-> Last(ip) - First(ip),
                      transfer_rate |-> Rate(Bytes(ip), Last(ip) - First(ip))])
  IN EmitFor(IpsOf(downloads), Reaches, Event)

detect_port_scanning(batch) ==
  LET Accessed(ip) == SortByTime(GroupOf(batch, ip))
      Unique(ip) == {Accessed(ip)[i].object : i \in DOMAIN Accessed(ip)}
      First(ip) == Accessed(ip)[1].timestamp
      Last(ip) == Accessed(ip)[Len(Accessed(ip))].timestamp
      Reaches(ip) == /\ Cardinality(Unique(ip)) >= ScanResources
                     /\ Last(ip) - First(ip) <= ScanSpan
      Event(ip) ==
        PatternEvent(Last(ip), "port_scanning", "medium", ip, <<>>,
                     <<Cardinality(Unique(ip)), "resources">>,
                     [unique_resources |-> Cardinality(Unique(ip)),
                      total_requests |-> Len(Accessed(ip)),
                      time_span |-> Last(ip) - First(ip),
                      scan_rate |-> Rate(Len(Accessed(ip)), Last(ip) - First(ip))])
  IN EmitFor(IpsOf(batch), Reaches, Event)

\* The intervals between consecutive sorted timestamps.
IntervalsOf(times) == [i \in 1..(Len(times) - 1) |-> times[i + 1] - times[i]]

\* variance / avg_interval < 0.1, where avg_interval = sum / len and
\* variance = sum(|x - avg_interval|) / len: with S the sum and k the number
\* of intervals this is sum(|k*x - S|) / (k*S) < 1/10.  The code computes in
\* floating point; the model's batches stay away from the exact boundary.
NearConstant(intervals) ==
  LET k == Len(intervals)
      S == SumSeq(intervals)
      Dev(x) == Abs(k * x - S)
  IN 10 * SumSeq(Map(intervals, Dev)) < k * S

detect_time_based_pattern(batch) ==
  LET Stamp(log) == log.timestamp
      Times(ip) == SortSeq(Map(GroupOf(batch, ip), Stamp), <)
      Intervals(ip) == IntervalsOf(Times(ip))
      Divides(ip) == Len(Times(ip)) >= BeaconEntries /\ Intervals(ip) # <<>>
      \* avg_interval is 0.0: variance / avg_interval raises
      ZeroMean(ip) == Divides(ip) /\ SumSeq(Intervals(ip)) = 0
      Reaches(ip) == Divides(ip) /\ ~ZeroMean(ip) /\ NearConstant(Intervals(ip))
      Raises(ip) == ZeroMean(ip) \/ (Reaches(ip) /\ ~ConstructorAccepts(PatternKeywords))
      raising == SelectSeq(IpsOf(batch), Raises)
      Event(ip) ==
        PatternEvent(Times(ip)[Len(Times(ip))], "time_based_pattern", "medium", ip,
                     <<>>, <<>>,
                     [interval_sum |-> SumSeq(Intervals(ip)),
                      request_count |-> Len(Times(ip)),
                      pattern_type |-> "automated_scheduled"])
  IN IF raising # <<>>
     THEN Raised(IF ZeroMean(Head(raising)) THEN "ZeroDivisionError" ELSE "TypeError")
     ELSE Returned(Map(SelectSeq(IpsOf(batch), Reaches), Event))

(***************************************************************************)
(* LogAnalyzer.detect_rapid_access (log_analyzer.py), whose SecurityEvent  *)
(* is the dataclass of its own module.                                     *)
(***************************************************************************)
\* window_accesses for i: the accesses from i on, not later than window_end
WindowAccesses(accesses, i, span) ==
  LET InWindow(a) == a.timestamp <= accesses[i].timestamp + span
  IN SelectSeq(SubSeq(accesses, i, Len(accesses)), InWindow)

\* the first i whose window holds `threshold` accesses; 0 when none
FirstFullWindow(accesses, threshold, span) ==
  LET hits == {i \in DOMAIN accesses :
                 Len(WindowAccesses(accesses, i, span)) >= threshold}
  IN IF hits = {} THEN 0 ELSE CHOOSE i \in hits : \A j \in hits : i <= j

bq_detect_rapid_access(batch, threshold, span) ==
  LET Accessed(ip) == SortByTime(GroupOf(batch, ip))
      At(ip) == FirstFullWindow(Accessed(ip), threshold, span)
      Fires(ip) == At(ip) # 0
      hits == SelectSeq(IpsOf(batch), Fires)
      Window(ip) == WindowAccesses(Accessed(ip), At(ip), span)
      Event(ip) ==
        PatternEvent(Accessed(ip)[At(ip)].timestamp, "rapid_access", "medium", ip,
                     Window(ip)[1].user_agent, Window(ip)[1].object,
                     [access_count |-> Len(Window(ip)), time_window |-> span,
                      requests_per_second |-> [num |-> Len(Window(ip)), den |-> span]])
  IN IF hits = <<>> THEN Returned(<<>>)
     \* len(window_accesses) / self.rapid_access_window
     ELSE IF span = 0 THEN Raised("ZeroDivisionError")
     ELSE Returned(Map(hits, Event))

(***************************************************************************)
(* CloudWatchAnalyzer.detect_rapid_access with the threshold and the       *)
(* window the environment sets.                                            *)
(***************************************************************************)
ConfiguredRapidEvent(times, i, ip, now, threshold, span) ==
  SecurityEvent("rapid_access", "medium", now, ip, "multiple",
                [access_count |-> threshold, time_window |-> span,
                 first_access |-> times[i],
                 last_access |-> times[i + threshold - 1]],
                Region)

cw_detect_rapid_access(batch, now, threshold, span) ==
  LET HasTime(log) == Parsable(log.timestamp)
      timed == SelectSeq(batch, HasTime)
      RemoteIp(log) == log.remote_ip
      ips == Keys(Map(timed, RemoteIp))
      Times(ip) == LET Mine(log) == log.remote_ip = ip
                       Stamp(log) == log.timestamp
                   IN SortSeq(Map(SelectSeq(timed, Mine), Stamp), <)
      One(ip) == LET i == FirstWindow(Times(ip), threshold, span)
                 IN IF i = 0 THEN <<>>
                    ELSE <<ConfiguredRapidEvent(Times(ip), i, ip, now, threshold, span)>>
  IN Flatten(Map(ips, One))

(***************************************************************************)
(* The detectors applied to a batch, one call per behaviour.               *)
(***************************************************************************)
InitPattern ==
  /\ variant = "cli"
  /\ scenario \in PatternScenarios
  /\ emailEnabled = FALSE
  /\ slackEnabled = FALSE
  /\ pc = "pattern"
  /\ pass = 1
  /\ clock = T0
  /\ ticks = 0
  /\ window = <<0, 0>>
  /\ fileIdx = 1
  /\ logs = get_recent_access_logs(PatternAccesses(scenario))
  /\ events = <<>>
  /\ idx = 1
  /\ chan = "email"
  /\ total_stored = 0
  /\ table = <<>>
  /\ putLog = <<>>
  /\ sendLog = <<>>
  /\ outbox = <<>>
  /\ detected = <<>>
  /\ ingestErrors = <<>>
  /\ faults = 0
  /\ response = 0
  /\ wevents = <<>>
  /\ wpc = <<>>
  /\ witem = <<>>
  /\ wret = <<>>
  /\ recent = <<>>
  /\ query_status = None

patternFixed == <<config, writers, recent, query_status, faults, ingestErrors, window,
                  fileIdx, logs, idx, chan, total_stored, table, putLog, sendLog,
                  outbox, response, pass, clock, ticks, events>>

\* One call of a detector and what it did.
Call(detector, outcome) ==
  /\ pc = "pattern"
  /\ detected = <<>>
  /\ detected' = <<[detector |-> detector, raised |-> outcome.raised,
                    events |-> outcome.events]>>
  /\ pc' = IF outcome.raised = None THEN "returned" ELSE "crashed"
  /\ UNCHANGED patternFixed

CredentialStuffing == Call("credential_stuffing", detect_credential_stuffing(logs))

DataExfiltration == Call("data_exfiltration", detect_data_exfiltration(logs))

PortScanning == Call("port_scanning", detect_port_scanning(logs))

TimeBasedPattern == Call("time_based_pattern", detect_time_based_pattern(logs))

BigQueryRapidAccess ==
  Call("bq_rapid_access",
       bq_detect_rapid_access(logs, scenario.rapid[1], scenario.rapid[2]))

CloudWatchRapidAccess ==
  Call("cw_rapid_access",
       Returned(cw_detect_rapid_access(InsightsLogs(PatternAccesses(scenario)), clock,
                                       scenario.rapid[1], scenario.rapid[2])))

NextPattern ==
  \/ CredentialStuffing
  \/ DataExfiltration
  \/ PortScanning
  \/ TimeBasedPattern
  \/ BigQueryRapidAccess
  \/ CloudWatchRapidAccess

SpecPattern == InitPattern /\ [][NextPattern]_vars

(***************************************************************************)
(* query_s3_access_logs of the command-line analyzer, call by call: the    *)
(* polling loop with its local `status`.  The calls of one behaviour are   *)
(* the queries of successive passes.                                       *)
(***************************************************************************)
QueryStatuses == {"Scheduled", "Running", "Complete", "Failed", "Cancelled", "Timeout"}

\* `while status != 'Complete'` in place of the loop's condition
UntilComplete(s) == s # "Complete"

\* `while status in ['Running', 'Scheduled']`
StillPolling(s) == s \in {"Running", "Scheduled"}

InitPoll ==
  /\ variant = "cli"
  /\ scenario \in Scenarios
  /\ emailEnabled = FALSE
  /\ slackEnabled = FALSE
  /\ pc = "start_query"
  /\ pass = 1
  /\ clock = T0
  /\ ticks = 0
  /\ window = <<0, 0>>
  /\ fileIdx = 1
  /\ logs = <<>>
  /\ events = <<>>
  /\ idx = 1
  /\ chan = "email"
  /\ total_stored = 0
  /\ table = <<>>
  /\ putLog = <<>>
  /\ sendLog = <<>>
  /\ outbox = <<>>
  /\ detected = <<>>
  /\ ingestErrors = <<>>
  /\ faults = 0
  /\ response = 0
  /\ wevents = <<>>
  /\ wpc = <<>>
  /\ witem = <<>>
  /\ wret = <<>>
  /\ recent = <<>>
  /\ query_status = None

pollFixed == <<config, writers, recent, fileIdx, events, idx, chan, total_stored, table,
               putLog, sendLog, outbox, detected, response>>

\* Time passes while the query runs.
PollTick ==
  /\ pc \in {"start_query", "poll"}
  /\ ticks < MaxTicks
  /\ clock' = clock + 1
  /\ ticks' = ticks + 1
  /\ UNCHANGED <<pollFixed, pc, pass, window, logs, query_status, faults, ingestErrors>>

\* start_query answers a queryId; status = 'Running'
QueryStart ==
  /\ pc = "start_query"
  /\ window' = <<clock - MonitorHours * 3600, clock>>
  /\ query_status' = "Running"
  /\ pc' = "poll"
  /\ UNCHANGED <<pollFixed, pass, clock, ticks, logs, faults, ingestErrors>>

\* get_query_results answers with the query's status
GetQueryResults(answer) ==
  /\ pc = "poll"
  /\ StillPolling(query_status)
  /\ query_status' = answer
  /\ UNCHANGED <<pollFixed, pc, pass, clock, ticks, window, logs, faults, ingestErrors>>

\* the query is still scheduled or running
PendingAnswer == \E answer \in {"Scheduled", "Running"} : GetQueryResults(answer)

\* the query has ended, one way or the other
FinalAnswer ==
  \E answer \in QueryStatuses \ {"Scheduled", "Running"} : GetQueryResults(answer)

\* start_query or get_query_results raises: the except branch returns []
QueryRaises ==
  /\ pc = "start_query" \/ (pc = "poll" /\ StillPolling(query_status))
  /\ faults < MaxFaults
  /\ faults' = faults + 1
  /\ logs' = <<>>
  /\ ingestErrors' = Append(ingestErrors, pass)
  /\ pc' = "analyze"
  /\ UNCHANGED <<pollFixed, pass, clock, ticks, window, query_status>>

\* the loop is left: the parsed results if the status is Complete, else []
QueryReturn ==
  /\ pc = "poll"
  /\ ~StillPolling(query_status)
  /\ logs' = IF query_status = "Complete"
             THEN parse_log_results(RowsIn(CliRows(scenario), window))
             ELSE <<>>
  /\ ingestErrors' = IF query_status = "Complete" THEN ingestErrors
                     ELSE Append(ingestErrors, pass)
  /\ pc' = "analyze"
  /\ UNCHANGED <<pollFixed, pass, clock, ticks, window, query_status, faults>>

\* the next pass of the monitor queries again
QueryAgain ==
  /\ pc = "analyze"
  /\ pass < MaxPasses
  /\ pass' = pass + 1
  /\ clock' = clock + IntervalMinutes * 60
  /\ logs' = <<>>
  /\ pc' = "start_query"
  /\ UNCHANGED <<pollFixed, ticks, window, query_status, faults, ingestErrors>>

NextPoll ==
  \/ PollTick
  \/ QueryStart
  \/ PendingAnswer
  \/ FinalAnswer
  \/ QueryRaises
  \/ QueryReturn
  \/ QueryAgain

\* The analyzer takes its next step, and the log service reports, in the
\* end, a status other than Running or Scheduled.
SpecPoll ==
  /\ InitPoll
  /\ [][NextPoll]_vars
  /\ WF_vars(QueryStart)
  /\ WF_vars(FinalAnswer)
  /\ WF_vars(QueryReturn)

(***************************************************************************)
(* Vocabulary of the properties.                                           *)
(*   attempted: a channel's send_alert / send_batch_alert was called and   *)
(*              went past its `enabled` guard (the dispatcher handed the   *)
(*              event to a configured channel);                            *)
(*   sent:      the message was handed to the transport (outbox).          *)
(***************************************************************************)
Channels == {"email", "slack"}

\* store_event_in_dynamodb succeeded for the i-th event of pass p
StoredOk(p, i) ==
  \E k \in DOMAIN putLog : putLog[k].pass = p /\ putLog[k].ev = i /\ putLog[k].ok

StoreFailed(p, i) ==
  \E k \in DOMAIN putLog : putLog[k].pass = p /\ putLog[k].ev = i /\ ~putLog[k].ok

NumStored(p) == Cardinality({k \in DOMAIN putLog : putLog[k].pass = p /\ putLog[k].ok})

Attempted(p, kind, i, c) ==
  \E k \in DOMAIN sendLog :
     /\ sendLog[k].pass = p /\ sendLog[k].kind = kind /\ sendLog[k].ev = i
     /\ sendLog[k].channel = c /\ sendLog[k].outcome # "skipped"

NumSent(p, kind, i, c) ==
  Cardinality({k \in DOMAIN outbox :
                 /\ outbox[k].pass = p /\ outbox[k].kind = kind
                 /\ outbox[k].ev = i /\ outbox[k].channel = c})

\* The dispatch of the current pass has ended (normally or by an exception).
DispatchEnded == variant = "cli" /\ pc \in {"pass_done", "crashed"} /\ events # <<>>

SameEvent(item, event) ==
  /\ item.event_type = event.event_type
  /\ item.ip_address = event.ip_address
  /\ item.timestamp = event.timestamp

RecordsOf(event) == {i \in DOMAIN table : SameEvent(table[i], event)}

C2_UpsertIdempotent ==
  \A w \in Writers :
     (/\ Len(wret[w]) = 2
      /\ wret[w][1].event = wret[w][2].event
      /\ wret[w][1].ret # "False" /\ wret[w][2].ret # "False")
     => /\ wret[w][1].ret = "True"
        /\ wret[w][2].ret = "duplicate"
        /\ Cardinality(RecordsOf(wret[w][1].event)) = 1

(***************************************************************************)
(* C3 (no re-emission across overlapping windows).  When a later pass      *)
(* stores an event of the same type for the same source IP as an earlier   *)
(* pass did (the window bucket is the same: the passes are five minutes    *)
(* apart), it writes it under the same key, the table holds one record of  *)
(* that type and IP, and the later pass attempts no notification for it.   *)
(***************************************************************************)
C3_NoReEmission ==
  \A a, b \in DOMAIN putLog :
     (/\ putLog[a].pass < putLog[b].pass
      /\ putLog[a].ok /\ putLog[b].ok
      /\ putLog[a].event_type = putLog[b].event_type
      /\ putLog[a].ip_address = putLog[b].ip_address)
     => /\ putLog[a].event_id = putLog[b].event_id
        /\ Cardinality({i \in DOMAIN table :
                          /\ table[i].event_type = putLog[b].event_type
                          /\ table[i].ip_address = putLog[b].ip_address}) <= 1
        /\ \A c \in Channels : ~Attempted(putLog[b].pass, "alert", putLog[b].ev, c)

(***************************************************************************)
(* C4 (immediate dispatch).  When the dispatch of a pass has ended         *)
(* normally, exactly one single-event notification was sent on every       *)
(* configured channel for each stored event of severity high or critical,  *)
(* and none for an event of severity low or medium.                        *)
(***************************************************************************)
C4_ImmediateDispatch ==
  (variant = "cli" /\ pc = "pass_done") =>
    \A i \in DOMAIN events : \A c \in Channels :
       /\ (IsImmediate(events[i]) /\ StoredOk(pass, i) /\ ChannelEnabled(c))
            => NumSent(pass, "alert", i, c) = 1
       /\ ~IsImmediate(events[i]) => NumSent(pass, "alert", i, c) = 0

(***************************************************************************)
(* C5 (batch summary).  When the dispatch of a pass has ended, the number  *)
(* of batch summaries sent on each configured channel is one if the pass   *)
(* stored more than one event, and zero otherwise.                         *)
(***************************************************************************)
C5_BatchSummary ==
  DispatchEnded =>
    \A c \in Channels :
       ChannelEnabled(c) =>
         NumSent(pass, "batch", 0, c) = (IF NumStored(pass) > 1 THEN 1 ELSE 0)

(***************************************************************************)
(* C6 (send-failure isolation).  A failure of one send never ends the      *)
(* pass by an exception, and when the dispatch has ended every send the    *)
(* dispatch rules call for was attempted: each immediate event on each     *)
(* configured channel, and the batch summary on each configured channel    *)
(* when the pass has more than one event.                                  *)
(***************************************************************************)
RequiredAttempted(c) ==
  /\ \A i \in DOMAIN events : IsImmediate(events[i]) => Attempted(pass, "alert", i, c)
  /\ WantsBatch(events) => Attempted(pass, "batch", 0, c)

C6_SendFailureIsolated ==
  /\ pc # "crashed"
  /\ DispatchEnded => \A c \in Channels : ChannelEnabled(c) => RequiredAttempted(c)

C8_StoreUnavailableFatal ==
  /\ (pc = "pass_done" /\ \E i \in DOMAIN events : StoreFailed(pass, i))
       => (variant = "lambda" /\ response = 500)
  /\ \A k \in DOMAIN sendLog :
        (sendLog[k].kind = "alert" /\ sendLog[k].outcome # "skipped")
          => ~StoreFailed(sendLog[k].pass, sendLog[k].ev)

(***************************************************************************)
(* C9 (single writer wins).  Once two writers have each upserted one       *)
(* event and both writes reached the table: if the events are the same,    *)
(* one writer observed `stored` (True), the other `duplicate`, and the     *)
(* table holds one record of the event; if they differ, both observed      *)
(* `stored`.                                                               *)
(***************************************************************************)
C9_SingleWriterWins ==
  (/\ Len(wret[1]) = 1 /\ Len(wret[2]) = 1
   /\ wevents[1] = <<>> /\ wevents[2] = <<>>
   /\ wret[1][1].ret # "False" /\ wret[2][1].ret # "False")
  => IF wret[1][1].event = wret[2][1].event
     THEN /\ {wret[1][1].ret, wret[2][1].ret} = {"True", "duplicate"}
          /\ Cardinality(RecordsOf(wret[1][1].event)) = 1
     ELSE wret[1][1].ret = "True" /\ wret[2][1].ret = "True"

(***************************************************************************)
(* C10 (an ingestion error aborts the pass before detection).  In a pass   *)
(* in which retrieving the logs failed (the query failed or raised, the    *)
(* listing raised, or a log file could not be read) no detector ran, no    *)
(* event was stored and no notification was attempted.                     *)
(***************************************************************************)
C10_IngestionErrorAborts ==
  \A n \in DOMAIN ingestErrors :
     LET p == ingestErrors[n]
     IN /\ \A k \in DOMAIN detected : detected[k].pass # p
        /\ \A k \in DOMAIN putLog : putLog[k].pass # p
        /\ \A k \in DOMAIN sendLog : sendLog[k].pass # p

(***************************************************************************)
(* C11 (runAll is deterministic).  Any two runs of the detectors on the    *)
(* same batch give the same set of events, timestamps and details          *)
(* included.                                                               *)
(***************************************************************************)
C11_RunAllDeterministic ==
  \A a, b \in DOMAIN detected :
     Range(detected[a].events) = Range(detected[b].events)

(***************************************************************************)
(* C12 (BulkDownload threshold boundary).  In every run, a source IP with  *)
(* exactly bulk_download_threshold - 1 successful GETs (GET answered 200)  *)
(* gets no bulk_download event and one with exactly                        *)
(* bulk_download_threshold successful GETs gets exactly one; accesses that *)
(* are not successful GETs do not count.                                   *)
(***************************************************************************)
SuccessfulGets(sc) ==
  Cardinality({i \in DOMAIN Accesses(sc) :
                 Accesses(sc)[i].method = "GET" /\ Accesses(sc)[i].status = "200"})

EventsOfType(evs, type, ip) ==
  Cardinality({i \in DOMAIN evs : evs[i].event_type = type /\ evs[i].ip_address = ip})

C12_BulkThresholdBoundary ==
  \A k \in DOMAIN detected :
     LET fired == EventsOfType(detected[k].events, "bulk_download", DetectIp)
     IN /\ SuccessfulGets(scenario) = bulk_download_threshold - 1 => fired = 0
        /\ SuccessfulGets(scenario) = bulk_download_threshold => fired = 1

(***************************************************************************)
(* C13 (RapidAccess).  In every run a rapid_access event is emitted for a  *)
(* source IP if and only if at least `threshold` entries of that IP have   *)
(* access times within a span of at most `window` seconds, for the values  *)
(* the variant uses (the configured rapid_access_threshold and             *)
(* rapid_access_window in the command-line analyzer, the literals 10 and   *)
(* 300 in the scheduled function); and with a threshold of 1 every IP that *)
(* has an entry with a readable time fires.                                *)
(***************************************************************************)
\* The accesses that are entries of the variant's batch.
BatchAccesses(v, sc) ==
  LET Kept(a) == v = "cli" \/ a.ua # None
  IN SelectSeq(Accesses(sc), Kept)

AccessTimes(v, sc) ==
  LET Timed(a) == Parsable(a.time)
      Time(a) == a.time
  IN Map(SelectSeq(BatchAccesses(v, sc), Timed), Time)

HasBurst(times, threshold, span) ==
  \E i \in DOMAIN times :
     Cardinality({j \in DOMAIN times : times[i] <= times[j] /\ times[j] <= times[i] + span})
       >= threshold

RapidThresholdOf(v) == IF v = "cli" THEN rapid_access_threshold ELSE 10
RapidWindowOf(v) == IF v = "cli" THEN rapid_access_window ELSE LambdaRapidSpan

C13_RapidAccessIff ==
  /\ \A k \in DOMAIN detected :
        (EventsOfType(detected[k].events, "rapid_access", DetectIp) > 0)
          <=> HasBurst(AccessTimes(variant, scenario),
                       RapidThresholdOf(variant), RapidWindowOf(variant))
  /\ (variant = "cli" /\ AccessTimes(variant, scenario) # <<>>)
        => FirstWindow(SortSeq(AccessTimes(variant, scenario), <), 1, rapid_access_window) # 0

(***************************************************************************)
(* C14 (one event per detector per IP).  A run on a batch of one source IP *)
(* with at least bulk_download_threshold GETs answered 200, two seconds    *)
(* apart, all with a curl user agent (the batch of 12 is one of them),     *)
(* gives exactly three events: one bulk_download of severity high, one     *)
(* rapid_access of severity medium, one suspicious_user_agent of severity  *)
(* medium.                                                                 *)
(***************************************************************************)
MeetsAllThree(sc) ==
  /\ sc.n >= bulk_download_threshold /\ sc.gap = 2 /\ sc.ua = Curl /\ sc.extra = "none"

OneOf(evs, type, severity) ==
  /\ EventsOfType(evs, type, DetectIp) = 1
  /\ \A i \in DOMAIN evs : evs[i].event_type = type => evs[i].severity = severity

C14_OneEventPerDetector ==
  \A k \in DOMAIN detected :
     MeetsAllThree(scenario) =>
       /\ Len(detected[k].events) = 3
       /\ OneOf(detected[k].events, "bulk_download", "high")
       /\ OneOf(detected[k].events, "rapid_access", "medium")
       /\ OneOf(detected[k].events, "suspicious_user_agent", "medium")

(***************************************************************************)
(* C15 (empty batch).  While a pass stands at the analysis of a batch of   *)
(* zero entries, or has returned from it, every step leaves the event      *)
(* sequence empty, writes nothing to the store, sends nothing, and does    *)
(* not end the pass by an error (no crash of the monitor, no 500 of the    *)
(* scheduled function).                                                    *)
(***************************************************************************)
EmptyBatchStep ==
  (logs = <<>> /\ pc \in {"analyze", "returned"}) =>
     /\ pc' \in {"analyze", "returned", "pass_done", "stopped"}
     /\ events' = <<>>
     /\ table' = table /\ putLog' = putLog
     /\ sendLog' = sendLog /\ outbox' = outbox
     /\ (variant = "lambda" /\ pc' = "pass_done") => response' = 200

C15_EmptyBatch == [][EmptyBatchStep]_vars

\* A pass over zero entries has ended: nothing detected, stored or sent in it.
C15_Witness ==
  /\ pc = "pass_done" /\ pass >= 1 /\ logs = <<>> /\ events = <<>>
  /\ faults = 0
  /\ \A k \in DOMAIN detected : detected[k].pass # pass
  /\ \A k \in DOMAIN putLog : putLog[k].pass # pass
  /\ \A k \in DOMAIN sendLog : sendLog[k].pass # pass

(***************************************************************************)
(* C16 (detectors never raise).  No run of the detectors ends by an        *)
(* exception, whatever the batch holds (an entry without a readable        *)
(* timestamp, an entry without a user agent), and every run emits at least *)
(* the events that the well-formed entries alone give.                     *)
(***************************************************************************)
WellFormed(batch) ==
  LET Good(log) == /\ Parsable(log.timestamp)
                   /\ \A f \in DOMAIN log \ {"timestamp"} : log[f] # None
  IN SelectSeq(batch, Good)

C16_DetectorsNeverRaise ==
  /\ pc # "crashed"
  /\ response # 500
  /\ \A k \in DOMAIN detected :
        Range(DetectAll(variant, WellFormed(logs), detected[k].now))
          \subseteq Range(detected[k].events)

(***************************************************************************)
(* C17 (runAll covers the whole detector set).  Once the detectors of a    *)
(* pass have run, the output holds an event of the detector's type for     *)
(* every source IP that meets the detector's condition.  The conditions    *)
(* written out are those the logs of the model meet beyond the detectors   *)
(* the analyzers have in common: FailedAccessAttempts (5 or more entries   *)
(* answered 401, 403 or 404), CredentialStuffing (5 or more entries        *)
(* answered 401 or 403 within 60 seconds) and BeaconingPattern (5 or more  *)
(* entries at a constant, non-zero spacing).                               *)
(***************************************************************************)
EntriesOf(batch, ip) == LET Mine(log) == log.remote_ip = ip IN SelectSeq(batch, Mine)

TimesOf(batch) ==
  LET Timed(log) == Parsable(log.timestamp)
      Stamp(log) == log.timestamp
  IN SortSeq(Map(SelectSeq(batch, Timed), Stamp), <)

FailedCondition(batch, ip) ==
  LET Failed(log) == log.http_status \in {"401", "403", "404"}
  IN Len(SelectSeq(EntriesOf(batch, ip), Failed)) >= 5

StuffingCondition(batch, ip) ==
  LET Denied(log) == log.http_status \in {"401", "403"}
      times == TimesOf(SelectSeq(EntriesOf(batch, ip), Denied))
  IN Len(times) >= 5 /\ times[Len(times)] - times[1] <= 60

BeaconCondition(batch, ip) ==
  LET times == TimesOf(EntriesOf(batch, ip))
  IN /\ Len(times) >= 5
     /\ times[2] > times[1]
     /\ \A i \in 2..(Len(times) - 1) : times[i + 1] - times[i] = times[2] - times[1]

DetectionDone == \E k \in DOMAIN detected : detected[k].pass = pass

C17_AllDetectorsRun ==
  DetectionDone =>
    \A ip \in {logs[i].remote_ip : i \in DOMAIN logs} :
       /\ FailedCondition(logs, ip) => EventsOfType(events, "failed_access_attempts", ip) > 0
       /\ StuffingCondition(logs, ip) => EventsOfType(events, "credential_stuffing", ip) > 0
       /\ BeaconCondition(logs, ip) => EventsOfType(events, "time_based_pattern", ip) > 0

(***************************************************************************)
(* C18 (severity is fixed by the event type).  Every event a pass emits    *)
(* carries the severity the detector table gives its type, in the          *)
(* command-line analyzer and in the scheduled function alike.              *)
(***************************************************************************)
TableSeverity(type) ==
  CASE type = "bulk_download" -> "high"
    [] type = "rapid_access" -> "medium"
    [] type = "abnormal_hours_access" -> "medium"
    [] type = "suspicious_user_agent" -> "medium"
    [] type = "failed_access_attempts" -> "high"
    [] type = "credential_stuffing" -> "high"
    [] type = "data_exfiltration" -> "critical"
    [] type = "port_scanning" -> "medium"
    [] type = "time_based_pattern" -> "medium"
    [] OTHER -> "unknown"

C18_SeverityByType ==
  \A i \in DOMAIN events : events[i].severity = TableSeverity(events[i].event_type)

(***************************************************************************)
(* C19 (query order).  Every answer of get_recent_events(hours) holds the  *)
(* stored events whose timestamp is at or after the cutoff, newest first:  *)
(* for every n the first n rows are the n most recent events, the rows the *)
(* dashboard lists among them.                                             *)
(***************************************************************************)
NewestFirst(items) ==
  \A i, j \in DOMAIN items : i < j => items[i].timestamp >= items[j].timestamp

C19_QueryNewestFirst ==
  \A q \in DOMAIN recent :
     recent[q].ok =>
       /\ Range(recent[q].items) = {table[i] : i \in ScanFilter(table, recent[q].cutoff)}
       /\ NewestFirst(recent[q].items)
       /\ \A n \in 0..Len(recent[q].items) :
             \A i \in 1..n : \A j \in (n + 1)..Len(recent[q].items) :
                recent[q].items[i].timestamp >= recent[q].items[j].timestamp
       /\ NewestFirst(RecentRows(recent[q].items))

(***************************************************************************)
(* C20 (the dispatch outcome is recorded).  When the dispatch of a pass    *)
(* has ended normally, what it returns to its caller holds, for every send *)
(* that was attempted in the pass, the event, the channel and whether the  *)
(* send succeeded.                                                         *)
(***************************************************************************)
AttemptsOf(p) ==
  {k \in DOMAIN sendLog : sendLog[k].pass = p /\ sendLog[k].outcome # "skipped"}

C20_DispatchRecorded ==
  (variant = "cli" /\ pc = "pass_done" /\ AttemptsOf(pass) # {}) =>
     /\ analyze_logs_return # None
     /\ \A k \in AttemptsOf(pass) :
           \E r \in Range(analyze_logs_return) :
              /\ r.kind = sendLog[k].kind /\ r.ev = sendLog[k].ev
              /\ r.channel = sendLog[k].channel
              /\ r.ok = (sendLog[k].outcome = "sent")

(***************************************************************************)
(* Vocabulary of the properties about the detectors as functions.  A       *)
(* qualifying window of a rapid-access detector is a run of `threshold`    *)
(* time-ordered accesses of one address that spans at most `span` seconds. *)
(***************************************************************************)
ScenarioTimes(sc) ==
  LET Time(a) == a.time IN SortSeq(Map(PatternAccesses(sc), Time), <)

QualifyingStarts(times, threshold, span) ==
  {times[i] : i \in {j \in 1..(Len(times) - threshold + 1) :
                       times[j + threshold - 1] - times[j] <= span}}

Earliest(stamps) == CHOOSE t \in stamps : \A u \in stamps : t <= u

EventIp(event) ==
  IF "ip_address" \in DOMAIN event THEN event.ip_address ELSE event.source_ip

SlidingWindowDetectors ==
  {"cw_rapid_access", "bq_rapid_access", "credential_stuffing", "port_scanning"}

\* The start of the window an event of a rapid-access detector describes.
DescribedStart(detector, event) ==
  IF detector = "cw_rapid_access" THEN event.details.first_access ELSE event.timestamp

FailedTimes(sc) == IF sc.status \in {401, 403} THEN ScenarioTimes(sc) ELSE <<>>

\* The call returned an event of the type for the address.
Fired(d, type, ip) ==
  /\ d.raised = None
  /\ \E i \in DOMAIN d.events : d.events[i].event_type = type /\ EventIp(d.events[i]) = ip

(***************************************************************************)
(* C22 (credential stuffing, windows).  Whenever 5 time-ordered refused    *)
(* accesses (401 or 403) of an address lie within 60 seconds,              *)
(* detect_credential_stuffing returns a credential_stuffing event for the  *)
(* address, also when the address has further refused accesses outside     *)
(* that window.                                                            *)
(***************************************************************************)
C22_StuffingWindows ==
  \A k \in DOMAIN detected :
     /\ detected[k].detector = "credential_stuffing"
     /\ QualifyingStarts(FailedTimes(scenario), StuffingFailures, StuffingSpan) # {}
     => Fired(detected[k], "credential_stuffing", DetectIp)

(***************************************************************************)
(* C23 (missing source address).  No event a pass emits carries an empty,  *)
(* null or placeholder source address: the entries whose log record lacks  *)
(* the remote address are in no detector's groups.                         *)
(***************************************************************************)
C23_NoPlaceholderSource ==
  \A k \in DOMAIN detected : \A i \in DOMAIN detected[k].events :
     detected[k].events[i].ip_address \notin {"", None, MissingIp, "unknown"}

\* All accesses of the scenario carry one timestamp: every span and every
\* inter-arrival interval a detector computes for the address is 0.
ZeroSpan(sc) ==
  LET times == ScenarioTimes(sc) IN times[Len(times)] - times[1] = 0

(***************************************************************************)
(* C24 (zero-span guard).  When the span (or the mean interval) a detector *)
(* divides by is 0, the detector's call raises nothing and returns no      *)
(* event for the address.                                                  *)
(***************************************************************************)
C24_ZeroSpanGuard ==
  \A k \in DOMAIN detected :
     /\ detected[k].detector \in {"credential_stuffing", "data_exfiltration",
                                  "port_scanning", "time_based_pattern"}
     /\ ZeroSpan(scenario)
     => detected[k].raised = None /\ detected[k].events = <<>>

\* The coefficient of variation (standard deviation / mean) of the intervals
\* is below 1/10: with S the sum and k the number of the intervals, the mean
\* is S/k and the variance sum((k*x - S)^2) / k^3, so the test is
\* 100 * sum((k*x - S)^2) < k * S^2 with S > 0.
LowVariation(intervals) ==
  LET k == Len(intervals)
      S == SumSeq(intervals)
      Sq(x) == (k * x - S) * (k * x - S)
  IN /\ k > 0
     /\ S > 0
     /\ SumSeq(Map(intervals, Sq)) <= (k * S * S - 1) \div 100

(***************************************************************************)
(* C25 (beaconing).  detect_time_based_pattern returns an event for an     *)
(* address exactly when the address has at least 5 entries and the         *)
(* coefficient of variation of the intervals between its time-sorted       *)
(* entries is below 0.1: 6 entries 300 seconds apart fire, entries whose   *)
(* intervals are 50% off the gap do not.                                   *)
(***************************************************************************)
C25_BeaconingIff ==
  \A k \in DOMAIN detected :
     detected[k].detector = "time_based_pattern" =>
       /\ detected[k].raised = None
       /\ Fired(detected[k], "time_based_pattern", DetectIp)
            <=> /\ Len(ScenarioTimes(scenario)) >= BeaconEntries
                /\ LowVariation(IntervalsOf(ScenarioTimes(scenario)))

\* The kilobytes served to the address by its successful GETs.
KilobytesServed(sc) ==
  LET Served(a) == a.method = "GET" /\ a.status = 200
  IN Len(SelectSeq(PatternAccesses(sc), Served)) * (sc.bytes \div 1024)

(***************************************************************************)
(* C26 (data exfiltration).  detect_data_exfiltration returns an event of  *)
(* severity critical for an address exactly when the sizes of the objects  *)
(* its successful GETs were served add up to at least 100 MB, whatever the *)
(* number of the GETs.                                                     *)
(***************************************************************************)
C26_ExfiltrationBySize ==
  \A k \in DOMAIN detected :
     detected[k].detector = "data_exfiltration" =>
       /\ Fired(detected[k], "data_exfiltration", DetectIp)
            <=> KilobytesServed(scenario) >= threshold_mb * 1024
       /\ \A i \in DOMAIN detected[k].events :
             detected[k].events[i].severity = "critical"

\* The addresses a call returned events for.
FiredIps(d) == {EventIp(d.events[i]) : i \in DOMAIN d.events}

\* What the two rapid-access detectors do on the scenario's accesses.
CloudWatchRapid(sc) ==
  Returned(cw_detect_rapid_access(InsightsLogs(PatternAccesses(sc)), T0,
                                  sc.rapid[1], sc.rapid[2]))
BigQueryRapid(sc) ==
  bq_detect_rapid_access(get_recent_access_logs(PatternAccesses(sc)),
                         sc.rapid[1], sc.rapid[2])

(***************************************************************************)
(* C27 (the two rapid-access detectors agree).  With one threshold >= 1    *)
(* and one window >= 0, on one batch of well-formed timestamps,            *)
(* CloudWatchAnalyzer.detect_rapid_access and                              *)
(* LogAnalyzer.detect_rapid_access both return, and they return events     *)
(* for the same source addresses.                                          *)
(***************************************************************************)
C27_RapidVariantsAgree ==
  \A k \in DOMAIN detected :
     /\ detected[k].detector = "cw_rapid_access" =>
          /\ BigQueryRapid(scenario).raised = None
          /\ FiredIps(detected[k]) = FiredIps(BigQueryRapid(scenario))
     /\ detected[k].detector = "bq_rapid_access" =>
          /\ detected[k].raised = None
          /\ FiredIps(detected[k]) = FiredIps(CloudWatchRapid(scenario))

(***************************************************************************)
(* C28 (the monitor keeps running).  In run_continuous_monitoring every    *)
(* pass, whatever failed in it, is followed by a further pass unless the   *)
(* operator interrupts (up to the model's bound on passes); nothing but an *)
(* interrupt ends the loop; and a pass starts only when the pass before    *)
(* has returned and the sleep is over.                                     *)
(***************************************************************************)
C28_MonitorKeepsRunning ==
  /\ \A p \in 1..(MaxPasses - 1) :
        (variant = "cli" /\ pass = p) ~> (pass = p + 1 \/ pc = "stopped")
  /\ [](variant = "cli" => pc # "crashed")
  /\ [][pass' # pass => pc = "idle"]_vars

\* The entries of the batch that carry the address.
EntriesFrom(batch, ip) == Cardinality({i \in DOMAIN batch : batch[i].remote_ip = ip})

C30_PollingTerminates ==
  /\ (pc = "poll") ~> (pc = "analyze")
  /\ [][(pc \in {"start_query", "poll"} /\ pc' = "analyze") =>
          logs' = IF pc = "poll" /\ query_status = "Complete"
                  THEN parse_log_results(RowsIn(CliRows(scenario), window))
                  ELSE <<>>]_vars

\* a call returned the rows of its window after the status Complete
C30_Witness ==
  /\ pc = "analyze"
  /\ query_status = "Complete"
  /\ logs # <<>>
  /\ Len(logs) = Len(RowsIn(CliRows(scenario), window))

=============================================================================
